---- MODULE Spec2Model ----
(***************************************************************************)
(* vscli: the recent-workspace history (src/src/history.rs), its           *)
(* persistence (Tracker::load / Tracker::store), the interactive selector  *)
(* (src/src/ui.rs) and the commands of main (src/src/main.rs).             *)
(*                                                                         *)
(* Option<T> is modelled as a set with at most one element: None is {} and *)
(* Some(x) is {x}.  Strings that are searched or compared character by     *)
(* character are sequences of one-character strings.                       *)
(***************************************************************************)
EXTENDS Integers, Sequences, FiniteSets, TLC

VARIABLES
    history,      \* History.0: HashMap<EntryId, Entry>, a function id -> Entry
    iter,         \* the iteration order of that HashMap: a sequence of its keys
    GLOBAL_ID,    \* EntryId::new's static counter
    op,           \* the last History method called: its name, arguments, results
                  \* (in SpecView: the last operation of the view)
    prev,         \* the call before op, kept when both are upserts
                  \* (in SpecView: when it was apply_filter with the empty pattern)
    pc,           \* where the process is: "start", "loaded", "ui", "ui_done",
                  \* "command_done", "done", "failed" ("view" in SpecView)
    file,         \* the history file at Tracker.path: None, or Some of its content
    bakOld,       \* the backup names that exist and hold what they held at the start
    bakBroken,    \* the backup names that hold a history file load moved aside
    now,          \* Utc::now()
    tlog,         \* the last Tracker call: its inputs, the errors met, its result
    rows,         \* UI.table_data.rows: a sequence of TableRow
    selected,     \* UI.table_state.selected(): Option<usize>
    last_clicked_index,   \* UI.last_clicked_index: Option<usize>
    search,       \* the first line of UI.search, a sequence of characters
    result,       \* what run_app returned: Option<EntryId>
    term          \* the terminal: raw mode, alternate screen, mouse capture

histVars == <<history, iter, GLOBAL_ID>>
logVars == <<op, prev>>
fsVars == <<file, bakOld, bakBroken>>
trackerVars == <<pc, file, bakOld, bakBroken, now, tlog, term>>
uiVars == <<rows, selected, last_clicked_index, search, result>>
vars == <<history, iter, GLOBAL_ID, op, prev, pc, file, bakOld, bakBroken, now, tlog,
          rows, selected, last_clicked_index, search, result, term>>

None == {}
Some(x) == {x}
\* the terminal the process found: cooked mode, main screen, no mouse capture
TermInit == [raw |-> FALSE, alt |-> FALSE, mouse |-> FALSE]
IsSome(o) == o # {}
Unwrap(o) == CHOOSE x \in o : TRUE

------------------------------------------------------------------------------
(* Bounds of the model *)

\* identifiers allocated while the History methods are exercised
MaxId == 2
\* distinct values of the clock (Utc::now)
MaxTime == 2
\* key sets up to this size get every iteration order; larger ones a family
MaxPermute == 3
\* rotations in the family of iteration orders of a large key set
MaxRot == 2
\* records in a short history file
MaxSmallFile == 2
\* records a long history file holds beyond MAX_HISTORY_ENTRIES
MaxOver == 1
\* backup files that exist before load, when not all of them do
MaxBak == 2
\* characters in the search line
MaxQuery == 2
\* instants of last_opened the model tells apart within one second
TicksPerSecond == 2
\* rows of the terminal; it is tall enough for the table to be shown
TermHeight == 9
\* records in the history file the Recent command starts from
MaxRecentFile == 3

------------------------------------------------------------------------------
(* Entry and its comparison *)

Entry(n, d, p, c, b, t) ==
    [workspace_name |-> n, dev_container_name |-> d, workspace_path |-> p,
     config_path |-> c, behavior |-> b, last_opened |-> t]

\* a plausible slip: the derived comparison, which looks at every field
EntryEqAllFields(a, b) == a = b

\* impl PartialEq for Entry
EntryEq(a, b) ==
    /\ a.workspace_path = b.workspace_path
    /\ a.config_path = b.config_path
    /\ a.behavior = b.behavior

\* impl Ord for Entry: Equal for equal entries, otherwise the order of
\* last_opened
EntryCmp(a, b) ==
    IF EntryEq(a, b) THEN "Equal"
    ELSE IF a.last_opened < b.last_opened THEN "Less"
    ELSE IF a.last_opened > b.last_opened THEN "Greater"
    ELSE "Equal"

\* the (workspace_path, config_path, behavior) triple of the spec
Triple(e) == <<e.workspace_path, e.config_path, e.behavior>>

------------------------------------------------------------------------------
(* HashMap iteration order *)

RECURSIVE SeqOfSet(_)
\* the elements of a finite set of integers in increasing order
SeqOfSet(S) ==
    IF S = {} THEN <<>>
    ELSE LET m == CHOOSE x \in S : \A y \in S : x <= y
         IN <<m>> \o SeqOfSet(S \ {m})

Range(s) == {s[i] : i \in DOMAIN s}

Perms(S) ==
    {s \in [1..Cardinality(S) -> S] : \A i, j \in DOMAIN s : i # j => s[i] # s[j]}

Rotate(s, k) ==
    [i \in DOMAIN s |-> s[((i - 1 + k) % Len(s)) + 1]]

Reverse(s) == [i \in DOMAIN s |-> s[Len(s) + 1 - i]]

\* The orders in which a HashMap with key set S may iterate.  The order is
\* unspecified (it depends on the hasher's random state and on the capacity).
IterOrders(S) ==
    IF Cardinality(S) <= MaxPermute THEN Perms(S)
    ELSE LET a == SeqOfSet(S)
         IN {Rotate(a, k) : k \in 0..MaxRot} \cup {Reverse(Rotate(a, k)) : k \in 0..MaxRot}

\* s without its element x
Without(s, x) == SelectSeq(s, LAMBDA y : y # x)

\* the first element of s that satisfies P, as an Option
FindFirst(s, P(_)) ==
    LET hits == {i \in DOMAIN s : P(s[i])}
    IN IF hits = {} THEN None
       ELSE Some(s[CHOOSE i \in hits : \A j \in hits : i <= j])

------------------------------------------------------------------------------
(* History *)

NoCall == [call |-> "none", fileWas |-> "none", error |-> "none", ret |-> "none", movedTo |-> None]

NoOp == [name |-> "none", entry |-> None, id |-> None, retId |-> None, retEntry |-> None]
Call(n, e, i, ri, re) == [name |-> n, entry |-> e, id |-> i, retId |-> ri, retEntry |-> re]

\* a plausible slip: insert leaves the store alone when it already holds a
\* record equal to the new one
HistoryInsertSkipsEqual(h, gid, entry, h2, it2, gid2, id) ==
    /\ id = gid
    /\ gid2 = gid + 1
    /\ h2 = IF \E i \in DOMAIN h : EntryEq(h[i], entry) THEN h ELSE h @@ (id :> entry)
    /\ it2 \in IterOrders(DOMAIN h2)

\* a plausible slip: the counter is read but not advanced
HistoryInsertCounterStuck(h, gid, entry, h2, it2, gid2, id) ==
    /\ id = gid
    /\ gid2 = gid
    /\ h2 = (id :> entry) @@ h
    /\ it2 \in IterOrders(DOMAIN h2)

\* History::insert, as a relation between the map before and after; the fresh
\* key may land anywhere and a resize may reorder the others
HistoryInsert(h, gid, entry, h2, it2, gid2, id) ==
    /\ id = gid
    /\ gid2 = gid + 1
    /\ id \notin DOMAIN h           \* assert_eq!(self.0.insert(id, entry), None)
    /\ h2 = h @@ (id :> entry)
    /\ it2 \in IterOrders(DOMAIN h2)

\* a plausible slip: HashMap::insert, which creates the entry of a vacant key
HistoryUpdateOrCreate(h, id, entry) == (id :> entry) @@ h

\* History::update: replaces only an occupied key; the order is untouched
HistoryUpdate(h, id, entry) ==
    IF id \in DOMAIN h THEN [h EXCEPT ![id] = entry] ELSE h

HistoryUpdateRet(h, id) ==
    IF id \in DOMAIN h THEN Some(h[id]) ELSE None

\* a plausible slip: the record is looked up and returned, but not removed
HistoryDeleteKeeps(h, id) == h

\* History::delete
HistoryDelete(h, id) == [i \in DOMAIN h \ {id} |-> h[i]]

HistoryDeleteRet(h, id) ==
    IF id \in DOMAIN h THEN Some(h[id]) ELSE None

\* a plausible slip: upsert's search always fails, so it always inserts
UpsertFindNever(h, it, entry) == None

\* History::upsert's search: the first key, in iteration order, whose entry
\* equals the argument
UpsertFind(h, it, entry) ==
    FindFirst(it, LAMBDA id : EntryEq(h[id], entry))

------------------------------------------------------------------------------
(* The values the operations are called with *)

PathA == <<"/", "a">>
PathB == <<"/", "b">>
ConfigC == <<"/", "a", "/", "c">>
NameA == <<"a">>
NameB == <<"b">>
NameOther == <<"a", "b">>
DevC == <<"c", "a">>

\* launch::Behavior values: the default editor command and another one
BehaviorCode == [strategy |-> "detect", args |-> <<>>, command |-> "code"]
BehaviorInsiders == [strategy |-> "detect", args |-> <<>>, command |-> "code-insiders"]

Times == 1..MaxTime

\* Workspace::from_path: the workspace's name is the last component of its path
WorkspaceName(p) ==
    LET slashes == {i \in DOMAIN p : p[i] = "/"}
        last == IF slashes = {} THEN 0 ELSE CHOOSE i \in slashes : \A j \in slashes : j <= i
    IN SubSeq(p, last + 1, Len(p))

\* DevContainer::from_config: the name the config file gives
DevContainerName(c) == IF c = None THEN None ELSE Some(DevC)

\* an entry as main builds it after a launch
Launched(p, c, b, t) == Entry(WorkspaceName(p), DevContainerName(c), p, c, b, t)

\* the entries the History methods are called with: one entry, entries that
\* differ from it only in last_opened or in a name, and entries that differ
\* from it in exactly one component of the triple
HistEntries ==
    {Launched(PathA, None, BehaviorCode, 1),
     Launched(PathA, None, BehaviorCode, MaxTime),
     Entry(NameOther, None, PathA, None, BehaviorCode, 1),
     Entry(NameA, Some(DevC), PathA, None, BehaviorCode, 1),
     Launched(PathB, None, BehaviorCode, 1),
     Launched(PathA, Some(ConfigC), BehaviorCode, 1),
     Launched(PathA, None, BehaviorInsiders, MaxTime)}

------------------------------------------------------------------------------
(* The History object under any sequence of method calls *)

HistInit ==
    /\ history = <<>>           \* History::default()
    /\ iter = <<>>
    /\ GLOBAL_ID = 0
    /\ op = NoOp
    /\ prev = NoOp
    /\ pc = "loaded"
    /\ file = None
    /\ bakOld = {}
    /\ bakBroken = {}
    /\ now = 1
    /\ tlog = NoCall
    /\ term = TermInit
    /\ rows = <<>>
    /\ selected = None
    /\ last_clicked_index = None
    /\ search = <<>>
    /\ result = None

Insert(entry) ==
    /\ GLOBAL_ID < MaxId
    /\ \E id \in {GLOBAL_ID} :
          /\ HistoryInsert(history, GLOBAL_ID, entry, history', iter', GLOBAL_ID', id)
          /\ op' = Call("insert", Some(entry), None, Some(id), None)
    /\ prev' = NoOp
    /\ UNCHANGED trackerVars
    /\ UNCHANGED uiVars

Update(id, entry) ==
    /\ history' = HistoryUpdate(history, id, entry)
    /\ op' = Call("update", Some(entry), Some(id), None, HistoryUpdateRet(history, id))
    /\ prev' = NoOp
    /\ UNCHANGED trackerVars
    /\ UNCHANGED uiVars
    /\ UNCHANGED <<iter, GLOBAL_ID>>

Delete(id) ==
    /\ history' = HistoryDelete(history, id)
    /\ iter' = Without(iter, id)
    /\ op' = Call("delete", None, Some(id), None, HistoryDeleteRet(history, id))
    /\ prev' = NoOp
    /\ UNCHANGED trackerVars
    /\ UNCHANGED uiVars
    /\ UNCHANGED GLOBAL_ID

Upsert(entry) ==
    LET found == UpsertFind(history, iter, entry)
    IN /\ IF IsSome(found)
          THEN /\ history' = HistoryUpdate(history, Unwrap(found), entry)
               /\ op' = Call("upsert", Some(entry), None, found, None)
               /\ UNCHANGED <<iter, GLOBAL_ID>>
          ELSE /\ GLOBAL_ID < MaxId
               /\ \E id \in {GLOBAL_ID} :
                     /\ HistoryInsert(history, GLOBAL_ID, entry, history', iter', GLOBAL_ID', id)
                     /\ op' = Call("upsert", Some(entry), None, Some(id), None)
       /\ prev' = IF op.name = "upsert" THEN op ELSE NoOp
       /\ UNCHANGED trackerVars
       /\ UNCHANGED uiVars

HistNext ==
    \/ \E e \in HistEntries : Insert(e)
    \/ \E e \in HistEntries, id \in 0..(MaxId - 1) : Update(id, e)
    \/ \E id \in 0..(MaxId - 1) : Delete(id)
    \/ \E e \in HistEntries : Upsert(e)

SpecHistory == HistInit /\ [][HistNext]_vars

------------------------------------------------------------------------------
(* Entry's ordering, applied to any three entries *)

\* cmp on each pair of a, b and c; op keeps the entries and the results
Compare(a, b, c) ==
    /\ op' = [name |-> "cmp", a |-> a, b |-> b, c |-> c,
              ab |-> EntryCmp(a, b), ba |-> EntryCmp(b, a),
              bc |-> EntryCmp(b, c), ac |-> EntryCmp(a, c)]
    /\ UNCHANGED <<history, iter, GLOBAL_ID, prev>>
    /\ UNCHANGED trackerVars
    /\ UNCHANGED uiVars

OrderNext == \E a \in HistEntries, b \in HistEntries, c \in HistEntries : Compare(a, b, c)

SpecOrder == HistInit /\ [][OrderNext]_vars

------------------------------------------------------------------------------
(* Tracker: the history file, load and store *)

\* The maximum number of entries to keep in the history
MAX_HISTORY_ENTRIES == 35

\* load probes the names .history_{i}.json.bak for i below this
ProbeLimit == 10000

\* A backup name: i stands for .history_{i}.json.bak, FallbackName for
\* .history.json.bak
BackupNames == 0..(ProbeLimit - 1)
FallbackName == -1

\* a plausible slip: no probing, always the fallback name
NewPathAlwaysFallback(existing) == FallbackName

\* the backup name load moves a broken file to: the first probed name that
\* does not exist, or the fallback name when all exist
NewPath(existing) ==
    LET free == BackupNames \ existing
    IN IF free = {} THEN FallbackName
       ELSE CHOOSE i \in free : \A j \in free : i <= j

Take(s, n) == SubSeq(s, 1, IF n < Len(s) THEN n ELSE Len(s))

\* a plausible slip: one identifier is made before the loop, so every record
\* lands on the same key and the last one stays
FromEntriesOneId(entries, gid) ==
    IF entries = <<>> THEN <<>> ELSE (gid :> entries[Len(entries)])

\* History::from_entries: a fresh identifier per entry, in the entries' order
FromEntries(entries, gid) == [i \in gid..(gid + Len(entries) - 1) |-> entries[i - gid + 1]]

\* History::into_entries: the values, in the HashMap's iteration order
IntoEntries(h, it) == [i \in DOMAIN it |-> h[it[i]]]

\* a plausible slip: the entries sorted by last_opened, newest first
RECURSIVE SortedNewestFirst(_, _)
SortedNewestFirst(h, ids) ==
    IF ids = {} THEN <<>>
    ELSE LET m == CHOOSE i \in ids : \A j \in ids :
                     \/ h[i].last_opened > h[j].last_opened
                     \/ (h[i].last_opened = h[j].last_opened /\ i <= j)
         IN <<h[m]>> \o SortedNewestFirst(h, ids \ {m})

\* a plausible slip: store without the cap
StoredEntriesUncapped(h, it) == IntoEntries(h, it)

\* the entries Tracker::store serializes
StoredEntries(h, it) == Take(IntoEntries(h, it), MAX_HISTORY_ENTRIES)

\* The history file is a JSON array of objects, one per record, written by
\* serde_json from the derived Serialize of Entry and read back through the
\* derived Deserialize. A JSON string is tagged with its type, null is its
\* own value, an object is a record of its members.
JsonNull == [t |-> "null"]
JsonString(s) == [t |-> "string", v |-> s]

Digit(n) == <<"0", "1", "2", "3", "4", "5", "6", "7", "8", "9">>[n + 1]
IsDigit(c) == \E n \in 0..9 : Digit(n) = c
DigitValue(c) == CHOOSE n \in 0..9 : Digit(n) = c

\* a plausible slip: the time is written in whole seconds
Rfc3339WholeSeconds(t) ==
    LET secs == t \div TicksPerSecond
    IN <<Digit(secs \div 10), Digit(secs % 10)>>

\* DateTime<Utc> as serde writes it: the RFC 3339 text, of which the model
\* keeps the seconds and, when it is not zero, the fraction of the second
Rfc3339(t) ==
    LET secs == t \div TicksPerSecond
        frac == t % TicksPerSecond
    IN <<Digit(secs \div 10), Digit(secs % 10)>>
          \o (IF frac = 0 THEN <<>> ELSE <<".", Digit(frac)>>)

\* the DateTime<Utc> a text parses to, or None when it is not a date
ParseRfc3339(text) ==
    IF /\ Len(text) \in {2, 4}
       /\ IsDigit(text[1]) /\ IsDigit(text[2])
       /\ Len(text) = 4 => (text[3] = "." /\ IsDigit(text[4]))
    THEN Some((10 * DigitValue(text[1]) + DigitValue(text[2])) * TicksPerSecond
                 + (IF Len(text) = 4 THEN DigitValue(text[4]) ELSE 0))
    ELSE None

\* Option<String> and Option<PathBuf>: null or the string
SerializeOption(o) == IF o = None THEN JsonNull ELSE JsonString(Unwrap(o))

\* a member of type Option: absent and null are None, a string is Some of
\* it, anything else is an error (None of the outer Option)
DeserializeOption(object, member) ==
    IF member \notin DOMAIN object THEN Some(None)
    ELSE IF object[member].t = "null" THEN Some(None)
    ELSE IF object[member].t = "string" THEN Some(Some(object[member].v))
    ELSE None

\* ContainerStrategy is written as the name of its variant
StrategyVariants ==
    [detect |-> "Detect", force_container |-> "ForceContainer", force_classic |-> "ForceClassic"]
StrategyKey(strategy) ==
    CASE strategy = "detect" -> "detect"
      [] strategy = "force-container" -> "force_container"
      [] strategy = "force-classic" -> "force_classic"
SerializeBehavior(behavior) ==
    [behavior EXCEPT !.strategy = StrategyVariants[StrategyKey(behavior.strategy)]]
DeserializeBehavior(object) ==
    CASE object.strategy = "Detect" -> Some([object EXCEPT !.strategy = "detect"])
      [] object.strategy = "ForceContainer" -> Some([object EXCEPT !.strategy = "force-container"])
      [] object.strategy = "ForceClassic" -> Some([object EXCEPT !.strategy = "force-classic"])
      [] OTHER -> None

\* the derived Serialize of Entry
SerializeEntry(entry) ==
    [workspace_name |-> JsonString(entry.workspace_name),
     dev_container_name |-> SerializeOption(entry.dev_container_name),
     workspace_path |-> JsonString(entry.workspace_path),
     config_path |-> SerializeOption(entry.config_path),
     behavior |-> SerializeBehavior(entry.behavior),
     last_opened |-> JsonString(Rfc3339(entry.last_opened))]

\* a member that must be there and be a string
StringMember(object, member) ==
    IF member \in DOMAIN object /\ object[member].t = "string"
    THEN Some(object[member].v) ELSE None

\* the derived Deserialize of Entry: the Entry of a JSON object, or None when
\* a member is missing, has another type or does not parse
DeserializeEntry(object) ==
    LET workspace_name == StringMember(object, "workspace_name")
        dev_container_name == DeserializeOption(object, "dev_container_name")
        workspace_path == StringMember(object, "workspace_path")
        config_path == DeserializeOption(object, "config_path")
        behavior == IF "behavior" \in DOMAIN object
                    THEN DeserializeBehavior(object.behavior) ELSE None
        last_opened == IF StringMember(object, "last_opened") = None THEN None
                       ELSE ParseRfc3339(Unwrap(StringMember(object, "last_opened")))
    IN IF \/ workspace_name = None \/ dev_container_name = None
          \/ workspace_path = None \/ config_path = None
          \/ behavior = None \/ last_opened = None
       THEN None
       ELSE Some(Entry(Unwrap(workspace_name), Unwrap(dev_container_name),
                       Unwrap(workspace_path), Unwrap(config_path),
                       Unwrap(behavior), Unwrap(last_opened)))

\* serde_json::to_writer_pretty of the entries: the text of the file
FileContent(entries) ==
    [parsable |-> TRUE, entries |-> [i \in DOMAIN entries |-> SerializeEntry(entries[i])]]
\* a file that is not a JSON array of objects
BrokenContent == [parsable |-> FALSE, entries |-> <<>>]

\* a plausible slip: the objects that are not an Entry are skipped and the
\* others are kept
DeserializeEntriesSkippingErrors(content) ==
    IF content.parsable
    THEN LET good == SelectSeq(content.entries, LAMBDA object : DeserializeEntry(object) # None)
         IN Some([i \in DOMAIN good |-> Unwrap(DeserializeEntry(good[i]))])
    ELSE None

\* serde_json::from_reader::<_, Vec<Entry>>: the entries of the file's
\* objects, in the file's order, or None (the error) when the text is not a
\* JSON array or one of its objects is not an Entry
DeserializeEntries(content) ==
    IF /\ content.parsable
       /\ \A i \in DOMAIN content.entries : DeserializeEntry(content.entries[i]) # None
    THEN Some([i \in DOMAIN content.entries |-> Unwrap(DeserializeEntry(content.entries[i]))])
    ELSE None

\* the file deserializes; the records it holds, none when it does not
Parses(content) == DeserializeEntries(content) # None
FileEntries(content) == IF Parses(content) THEN Unwrap(DeserializeEntries(content)) ELSE <<>>

\* the ways one object of a hand-edited or half-written file is not an Entry:
\* a last_opened that is not a date, a null where a path must be, a member
\* that is missing
BadKinds == {"date", "null", "missing"}
BadRecord(object, how) ==
    CASE how = "date" -> [object EXCEPT !.last_opened = JsonString(<<"x">>)]
      [] how = "null" -> [object EXCEPT !.workspace_path = JsonNull]
      [] how = "missing" -> [member \in DOMAIN object \ {"behavior"} |-> object[member]]

\* the file with its k-th object made bad
WithBadRecord(content, k, how) ==
    [content EXCEPT !.entries[k] = BadRecord(content.entries[k], how)]

TCall(c, w, e, r, m) == [call |-> c, fileWas |-> w, error |-> e, ret |-> r, movedTo |-> m]

\* Tracker::load when the file does not exist
LoadAbsent ==
    /\ pc = "start"
    /\ file = None
    /\ pc' = "loaded"
    /\ history' = <<>>
    /\ iter' = <<>>
    /\ tlog' = TCall("load", "absent", "none", "ok", None)
    /\ UNCHANGED <<GLOBAL_ID, op, prev, file, bakOld, bakBroken, now, term>>
    /\ UNCHANGED uiVars

\* Tracker::load when File::open fails: the error is returned
LoadOpenError ==
    /\ pc = "start"
    /\ file # None
    /\ pc' = "failed"
    /\ tlog' = TCall("load", IF Parses(Unwrap(file)) THEN "parsable" ELSE "broken",
                     "open", "err", None)
    /\ UNCHANGED <<history, iter, GLOBAL_ID, op, prev, file, bakOld, bakBroken, now, term>>
    /\ UNCHANGED uiVars

\* Tracker::load of a file that parses as Vec<Entry>
LoadParsed ==
    /\ pc = "start"
    /\ file # None
    /\ Parses(Unwrap(file))
    /\ LET entries == FileEntries(Unwrap(file))
       IN /\ history' = FromEntries(entries, GLOBAL_ID)
          /\ GLOBAL_ID' = GLOBAL_ID + Len(entries)
          /\ iter' \in IterOrders(DOMAIN history')
    /\ pc' = "loaded"
    /\ tlog' = TCall("load", "parsable", "none", "ok", None)
    /\ UNCHANGED <<op, prev, file, bakOld, bakBroken, now, term>>
    /\ UNCHANGED uiVars

\* a plausible slip: the parse error is propagated like the others and the
\* file stays where it is
LoadBrokenFatal ==
    /\ pc = "start"
    /\ file # None
    /\ ~Parses(Unwrap(file))
    /\ pc' = "failed"
    /\ tlog' = TCall("load", "broken", "parse", "err", None)
    /\ UNCHANGED <<history, iter, GLOBAL_ID, op, prev, file, bakOld, bakBroken, now, term>>
    /\ UNCHANGED uiVars

\* Tracker::load of a file that does not parse: the file is moved to a backup
\* name (fs::rename replaces a file that has the target name) and the history
\* starts empty; if the rename fails its error is returned
LoadBroken ==
    /\ pc = "start"
    /\ file # None
    /\ ~Parses(Unwrap(file))
    /\ LET new_path == NewPath(bakOld \cup bakBroken)
       IN \E renamed \in BOOLEAN :
            IF renamed
            THEN /\ file' = None
                 /\ bakOld' = bakOld \ {new_path}
                 /\ bakBroken' = bakBroken \cup {new_path}
                 /\ history' = <<>>
                 /\ iter' = <<>>
                 /\ pc' = "loaded"
                 /\ tlog' = TCall("load", "broken", "none", "ok", Some(new_path))
            ELSE /\ pc' = "failed"
                 /\ tlog' = TCall("load", "broken", "rename", "err", None)
                 /\ UNCHANGED <<file, bakOld, bakBroken, history, iter>>
    /\ UNCHANGED <<GLOBAL_ID, op, prev, now, term>>
    /\ UNCHANGED uiVars

\* main, Commands::Open: after a successful launch the workspace is upserted
\* with the current time
OpenCommand(path, config, behavior) ==
    /\ pc = "loaded"
    /\ LET entry == Launched(path, config, behavior, now)
           found == UpsertFind(history, iter, entry)
       IN IF IsSome(found)
          THEN /\ history' = HistoryUpdate(history, Unwrap(found), entry)
               /\ op' = Call("upsert", Some(entry), None, found, None)
               /\ UNCHANGED <<iter, GLOBAL_ID>>
          ELSE \E id \in {GLOBAL_ID} :
                 /\ HistoryInsert(history, GLOBAL_ID, entry, history', iter', GLOBAL_ID', id)
                 /\ op' = Call("upsert", Some(entry), None, Some(id), None)
    /\ pc' = "command_done"
    /\ UNCHANGED <<prev, file, bakOld, bakBroken, now, tlog, term>>
    /\ UNCHANGED uiVars

\* a plausible slip: the workspace is upserted before the launch, so a launch
\* that fails leaves its record in the store
OpenFailsAfterUpsert ==
    /\ pc = "loaded"
    /\ \E path \in {PathA, PathB} :
          LET entry == Launched(path, None, BehaviorCode, now)
              found == UpsertFind(history, iter, entry)
          IN IF IsSome(found)
             THEN /\ history' = HistoryUpdate(history, Unwrap(found), entry)
                  /\ op' = Call("upsert", Some(entry), None, found, None)
                  /\ UNCHANGED <<iter, GLOBAL_ID>>
             ELSE \E id \in {GLOBAL_ID} :
                    /\ HistoryInsert(history, GLOBAL_ID, entry, history', iter', GLOBAL_ID', id)
                    /\ op' = Call("upsert", Some(entry), None, Some(id), None)
    /\ pc' = "failed"
    /\ UNCHANGED <<prev, file, bakOld, bakBroken, now, tlog, term>>
    /\ UNCHANGED uiVars

\* main, Commands::Open when the workspace, the launch or canonicalize fails:
\* the error ends the process before the upsert and before store
OpenFails ==
    /\ pc = "loaded"
    /\ pc' = "failed"
    /\ UNCHANGED <<history, iter, GLOBAL_ID, op, prev, file, bakOld, bakBroken, now, tlog, term>>
    /\ UNCHANGED uiVars

\* a plausible slip: the result of the write is dropped, so store returns Ok
\* over a file it could not write
StoreIgnoresWriteError(outcome) ==
    /\ pc = "command_done"
    /\ LET was == IF file = None THEN "absent"
                  ELSE IF Parses(Unwrap(file)) THEN "parsable" ELSE "broken"
       IN CASE outcome = "ok" ->
                 /\ file' = Some(FileContent(StoredEntries(history, iter)))
                 /\ pc' = "done"
                 /\ tlog' = TCall("store", was, "none", "ok", None)
            [] outcome \in {"dir", "create"} ->
                 /\ UNCHANGED file
                 /\ pc' = "failed"
                 /\ tlog' = TCall("store", was, outcome, "err", None)
            [] outcome = "write" ->
                 /\ file' = Some(BrokenContent)
                 /\ pc' = "done"
                 /\ tlog' = TCall("store", was, outcome, "ok", None)
    /\ UNCHANGED <<history, iter, GLOBAL_ID, op, prev, bakOld, bakBroken, now, term>>
    /\ UNCHANGED uiVars

\* Tracker::store; outcome is what the file system lets it do: "ok", or the
\* step that fails (the directory, File::create, or the write after the file
\* was truncated)
Store(outcome) ==
    /\ pc = "command_done"
    /\ LET was == IF file = None THEN "absent"
                  ELSE IF Parses(Unwrap(file)) THEN "parsable" ELSE "broken"
       IN CASE outcome = "ok" ->
                 /\ file' = Some(FileContent(StoredEntries(history, iter)))
                 /\ pc' = "done"
                 /\ tlog' = TCall("store", was, "none", "ok", None)
            [] outcome \in {"dir", "create"} ->
                 /\ UNCHANGED file
                 /\ pc' = "failed"
                 /\ tlog' = TCall("store", was, outcome, "err", None)
            [] outcome = "write" ->
                 /\ file' = Some(BrokenContent)
                 /\ pc' = "failed"
                 /\ tlog' = TCall("store", was, outcome, "err", None)
    /\ UNCHANGED <<history, iter, GLOBAL_ID, op, prev, bakOld, bakBroken, now, term>>
    /\ UNCHANGED uiVars

StoreOutcomes == {"ok", "dir", "create", "write"}

------------------------------------------------------------------------------
(* One run of the Open command over a history file of any length *)

\* the path of the k-th workspace of a long history: /w00, /w01, ...
PathN(k) == <<"/", "w", Digit(k \div 10), Digit(k % 10)>>

\* a history file of n records of n workspaces, opened one after the other;
\* a file that store wrote is in no particular order: oldest first or newest first
HistoryFile(n, order) ==
    [i \in 1..n |->
        Launched(PathN(i), None, BehaviorCode, IF order = "oldest" THEN i ELSE n + 1 - i)]

FileSizes ==
    (0..MaxSmallFile) \cup ((MAX_HISTORY_ENTRIES - 1)..(MAX_HISTORY_ENTRIES + MaxOver))

\* the backup names that exist before the run: a few, or every probed name
BackupStates ==
    {0..(k - 1) : k \in 0..MaxBak}
    \cup {{1}, {FallbackName}, BackupNames, BackupNames \cup {FallbackName}}

\* the workspaces the run opens: the first of the file, and one no file holds
OpenTargets == {1, MAX_HISTORY_ENTRIES + MaxOver + 1}

TrackerInit ==
    /\ history = <<>>
    /\ iter = <<>>
    /\ GLOBAL_ID = 0
    /\ op = NoOp
    /\ prev = NoOp
    /\ pc = "start"
    /\ \E n \in FileSizes, order \in {"oldest", "newest"},
          kind \in {"absent", "parsable", "broken", "bad_record"} :
          /\ file \in CASE kind = "absent" -> {None}
                        [] kind = "parsable" -> {Some(FileContent(HistoryFile(n, order)))}
                        [] kind = "broken" -> {Some(BrokenContent)}
                        [] kind = "bad_record" ->
                              {Some(WithBadRecord(FileContent(HistoryFile(n, order)), k, how)) :
                                  k \in {1, n} \cap (1..n), how \in BadKinds}
          /\ now = n + 1
          /\ bakOld \in (CASE kind = "broken" -> BackupStates
                           [] kind = "bad_record" -> {{}, {MaxBak + 1}}
                           [] OTHER -> {{}})
    /\ bakBroken = {}
    /\ tlog = NoCall
    /\ term = TermInit
    /\ rows = <<>>
    /\ selected = None
    /\ last_clicked_index = None
    /\ search = <<>>
    /\ result = None

TrackerNext ==
    \/ LoadAbsent
    \/ LoadOpenError
    \/ LoadParsed
    \/ LoadBroken
    \/ \E k \in OpenTargets : OpenCommand(PathN(k), None, BehaviorCode)
    \/ OpenFails
    \/ \E outcome \in StoreOutcomes : Store(outcome)

SpecTracker == TrackerInit /\ [][TrackerNext]_vars

------------------------------------------------------------------------------
(* A run of the Open command and the load of the run after it *)

\* Tracker::load in the next run of the program, over the file the run
\* before stored: the identifiers start again at 0 in the new process
NextRunLoad ==
    /\ pc = "done"
    /\ file # None
    /\ Parses(Unwrap(file))
    /\ LET entries == Unwrap(DeserializeEntries(Unwrap(file)))
       IN /\ history' = FromEntries(entries, 0)
          /\ GLOBAL_ID' = Len(entries)
          /\ iter' \in IterOrders(DOMAIN history')
    /\ pc' = "loaded_again"
    /\ tlog' = TCall("load", "parsable", "none", "ok", None)
    /\ UNCHANGED <<op, prev, file, bakOld, bakBroken, now, term>>
    /\ UNCHANGED uiVars

RoundTripNext ==
    \/ LoadAbsent
    \/ LoadOpenError
    \/ LoadParsed
    \/ LoadBroken
    \/ \E k \in OpenTargets, config \in {None, Some(ConfigC)} :
          OpenCommand(PathN(k), config, BehaviorCode)
    \/ OpenFails
    \/ \E outcome \in StoreOutcomes : Store(outcome)
    \/ NextRunLoad

SpecRoundTrip == TrackerInit /\ [][RoundTripNext]_vars

------------------------------------------------------------------------------
(* TableData: the rows of the selector and the filter *)

\* usize::MAX, which select_last stores.  It stands for 2^64 - 1: the model
\* only compares it and never computes with it, and it is larger than any
\* number of rows
UsizeMax == 2147483647

\* DateTime::timestamp: whole seconds
Timestamp(t) == t \div TicksPerSecond

\* slice::sort_by_key: a stable sort of s, smallest key first; key[i] is the
\* key of s[i]
SortByKey(s, key) ==
    LET rank(i) == Cardinality({j \in DOMAIN s :
                       \/ key[j] < key[i]
                       \/ (key[j] = key[i] /\ j < i)}) + 1
    IN [k \in DOMAIN s |-> s[CHOOSE i \in DOMAIN s : rank(i) = k]]

\* impl From<(EntryId, Entry)> for TableRow
TableRow(id, entry) == [id |-> id, entry |-> entry, search_score |-> Some(0)]

\* the sort of from_iter and reset_filter: newest first
SortNewestFirst(rs) ==
    SortByKey(rs, [i \in DOMAIN rs |-> 0 - Timestamp(rs[i].entry.last_opened)])

\* TableData::from_iter over History::iter
TableDataFromIter(h, it) ==
    SortNewestFirst([i \in DOMAIN it |-> TableRow(it[i], h[it[i]])])

\* TableData::as_rows_full: the rows with a score, in order
AsRowsFull(rs) == SelectSeq(rs, LAMBDA row : row.search_score # None)

\* a plausible slip: a sum only when both are present
AddNumOptBoth(o1, o2) ==
    IF o1 # None /\ o2 # None THEN Some(Unwrap(o1) + Unwrap(o2)) ELSE None

\* add_num_opt
AddNumOpt(o1, o2) ==
    IF o1 # None /\ o2 # None THEN Some(Unwrap(o1) + Unwrap(o2))
    ELSE IF o1 # None THEN o1
    ELSE o2

\* CaseMatching::Ignore: characters are compared in lower case
Lower(c) == IF c = "A" THEN "a" ELSE IF c = "B" THEN "b" ELSE c

\* the positions of the leftmost match of needle[i..] as a subsequence of
\* hay[j..], or <<0>> when there is none
RECURSIVE MatchPositions(_, _, _, _)
MatchPositions(needle, hay, i, j) ==
    IF i > Len(needle) THEN <<>>
    ELSE IF j > Len(hay) THEN <<0>>
    ELSE IF Lower(needle[i]) = Lower(hay[j])
         THEN LET rest == MatchPositions(needle, hay, i + 1, j + 1)
              IN IF rest = <<0>> THEN <<0>> ELSE <<j>> \o rest
         ELSE MatchPositions(needle, hay, i, j + 1)

\* The score of one fuzzy atom against one string (nucleo's Atom::score): none
\* unless the atom is a subsequence of the string, otherwise higher for a
\* match at the start, for adjacent characters, and for fewer gaps
AtomScore(needle, hay) ==
    LET pos == MatchPositions(needle, hay, 1, 1)
    IN IF pos = <<0>> THEN None
       ELSE LET adjacent == Cardinality({k \in 1..(Len(pos) - 1) : pos[k + 1] = pos[k] + 1})
                gaps == (pos[Len(pos)] - pos[1] + 1) - Len(pos)
            IN Some(16 * Len(pos) + (IF pos[1] = 1 THEN 8 ELSE 0) + 4 * adjacent - gaps)

\* the words of a pattern: Pattern::new splits it at white space
RECURSIVE Words(_)
Words(q) ==
    IF q = <<>> THEN <<>>
    ELSE IF Head(q) = " " THEN Words(Tail(q))
    ELSE LET spaces == {i \in DOMAIN q : q[i] = " "}
             end == IF spaces = {} THEN Len(q) + 1
                    ELSE CHOOSE i \in spaces : \A j \in spaces : i <= j
         IN <<SubSeq(q, 1, end - 1)>> \o Words(SubSeq(q, end, Len(q)))

\* Pattern::score: every word must match; the scores add up
RECURSIVE PatternScoreOf(_, _)
PatternScoreOf(atoms, hay) ==
    IF atoms = <<>> THEN Some(0)
    ELSE LET first == AtomScore(Head(atoms), hay)
             rest == PatternScoreOf(Tail(atoms), hay)
         IN IF first = None \/ rest = None THEN None
            ELSE Some(Unwrap(first) + Unwrap(rest))

\* a plausible slip: a pattern without words matches nothing
PatternScoreEmptyIsNone(pattern, hay) ==
    IF Words(pattern) = <<>> THEN None ELSE PatternScoreOf(Words(pattern), hay)

PatternScore(pattern, hay) == PatternScoreOf(Words(pattern), hay)

\* str::trim().is_empty()
TrimIsEmpty(q) == \A i \in DOMAIN q : q[i] = " "

OrEmpty(o) == IF o = None THEN <<>> ELSE Unwrap(o)

\* the score TableData::apply_filter gives a row
NewSearchScore(pattern, entry) ==
    AddNumOpt(
        AddNumOpt(PatternScore(pattern, entry.workspace_name),
                  PatternScore(pattern, OrEmpty(entry.dev_container_name))),
        PatternScore(pattern, entry.workspace_path))

ScoreOrZero(row) == IF row.search_score = None THEN 0 ELSE Unwrap(row.search_score)

\* a plausible slip: the score itself is the sort key, so the worst match
\* comes first
TableApplyFilterWorstFirst(rs, pattern) ==
    LET scored == [i \in DOMAIN rs |->
                      [rs[i] EXCEPT !.search_score = NewSearchScore(pattern, rs[i].entry)]]
    IN SortByKey(scored, [i \in DOMAIN scored |-> ScoreOrZero(scored[i])])

\* TableData::apply_filter: the rows with their new scores, best first; the
\* key u32::MAX - score orders the rows as -score does
TableApplyFilter(rs, pattern) ==
    LET scored == [i \in DOMAIN rs |->
                      [rs[i] EXCEPT !.search_score = NewSearchScore(pattern, rs[i].entry)]]
    IN SortByKey(scored, [i \in DOMAIN scored |-> 0 - ScoreOrZero(scored[i])])

\* a plausible slip: only a change between shown and hidden is reported
TableApplyFilterChangesVisibility(rs, pattern) ==
    \E i \in DOMAIN rs :
        (NewSearchScore(pattern, rs[i].entry) = None) # (rs[i].search_score = None)

\* TableData::apply_filter's result: whether a score changed
TableApplyFilterChanges(rs, pattern) ==
    \E i \in DOMAIN rs : NewSearchScore(pattern, rs[i].entry) # rs[i].search_score

\* TableData::reset_filter
TableResetFilter(rs) ==
    SortNewestFirst([i \in DOMAIN rs |-> [rs[i] EXCEPT !.search_score = Some(0)]])

------------------------------------------------------------------------------
(* UI: the cursor, the filter and the table widget *)

\* a plausible slip: the first visible row, whatever the index
GetFirstRow(rs, sel) ==
    IF sel = None \/ AsRowsFull(rs) = <<>> THEN None ELSE Some(AsRowsFull(rs)[1])

\* UI::get_selected_row
GetSelectedRow(rs, sel) ==
    IF sel = None THEN None
    ELSE LET v == AsRowsFull(rs)
         IN IF Unwrap(sel) < Len(v) THEN Some(v[Unwrap(sel) + 1]) ELSE None

\* a plausible slip: a table widget that leaves the selection as it finds it
RenderKeepsSelection(sel, n) == sel

\* What drawing the table (render_stateful_widget with the n rows of to_rows)
\* does to table_state: a selection past the end moves to the last row, and
\* there is no selection in an empty table
RenderTable(sel, n) ==
    LET clamped == IF sel # None /\ Unwrap(sel) >= n
                   THEN Some(IF n = 0 THEN 0 ELSE n - 1)
                   ELSE sel
    IN IF n = 0 THEN None ELSE clamped

\* terminal.draw: table_state after the frame is drawn
Draw(rs, sel) == RenderTable(sel, Len(AsRowsFull(rs)))

\* i + 1 in usize, wrapping as a build without overflow checks does
WrappingSucc(i) == IF i = UsizeMax THEN 0 ELSE i + 1

\* i + len - 1 in usize, wrapping
WrappingAddLenMinusOne(i, len) ==
    IF i = UsizeMax THEN (IF len = 1 THEN UsizeMax ELSE len - 2) ELSE i + len - 1

\* whether select_next / select_previous overflow
NextOverflows(sel) == sel = Some(UsizeMax)

\* a plausible slip: the next index without the wrap to the first row
SelectNextNoWrap(rs, sel) ==
    IF AsRowsFull(rs) = <<>> THEN sel
    ELSE Some(WrappingSucc(IF sel = None THEN 0 ELSE Unwrap(sel)))

\* UI::select_next
SelectNextState(rs, sel) ==
    LET len == Len(AsRowsFull(rs))
        i == IF sel = None THEN 0 ELSE Unwrap(sel)
    IN IF len = 0 THEN sel ELSE Some(WrappingSucc(i) % len)

\* UI::select_previous
SelectPreviousState(rs, sel) ==
    LET len == Len(AsRowsFull(rs))
        i == IF sel = None THEN len - 1 ELSE Unwrap(sel)
    IN IF len = 0 THEN sel ELSE Some(WrappingAddLenMinusOne(i, len) % len)

\* a plausible slip: the row is never looked up, so the first row is selected
IndexOfIdNever(rs, id) == None

\* the index of the row with this id among the visible rows, as an Option
IndexOfId(rs, id) ==
    LET v == AsRowsFull(rs)
        hits == {i \in DOMAIN v : v[i].id = id}
    IN IF hits = {} THEN None
       ELSE Some((CHOOSE i \in hits : \A j \in hits : i <= j) - 1)

\* UI::apply_filter: the rows and the selection it leaves
UIApplyFilter(rs, sel, pattern) ==
    LET prev_selected == GetSelectedRow(rs, sel)
        reset == TrimIsEmpty(pattern)
        rows2 == IF reset THEN TableResetFilter(rs) ELSE TableApplyFilter(rs, pattern)
        update_selected == reset \/ TableApplyFilterChanges(rs, pattern)
        index == IF prev_selected = None THEN None
                 ELSE IndexOfId(rows2, Unwrap(prev_selected).id)
    IN [rows |-> rows2,
        selected |-> IF ~update_selected THEN sel
                     ELSE IF index # None THEN index
                     ELSE Some(0)]

\* a plausible slip: the view drops its first row, whatever the entry
UIDeleteFirstRow(rs, entry_id) == IF rs = <<>> THEN rs ELSE Tail(rs)

\* a plausible slip: the view drops its last row, whatever the entry
UIDeleteLastRow(rs, entry_id) == SubSeq(rs, 1, Len(rs) - 1)

\* UI::delete: the rows without the row of this entry
UIDelete(rs, entry_id) ==
    LET hits == {i \in DOMAIN rs : rs[i].id = entry_id}
        index == CHOOSE i \in hits : \A j \in hits : i <= j
    IN IF hits = {} THEN rs
       ELSE [k \in 1..(Len(rs) - 1) |-> IF k < index THEN rs[k] ELSE rs[k + 1]]

\* UI::delete's result
UIDeleteRet(rs, entry_id) == \E i \in DOMAIN rs : rs[i].id = entry_id

------------------------------------------------------------------------------
(* The selector: ui::start and the loop of run_app.  Every action of the loop
   is one event: its handler and then, unless run_app returns, the draw at
   the top of the loop, after which the loop waits for the next event. *)

\* the steps of start before run_app, and the step each outcome fails at: a
\* step that fails has no effect, and the ? returns at once
SetupOutcomes == {"ok", "enable_raw_mode", "EnterAlternateScreen", "EnableMouseCapture",
                  "Terminal::new"}
Setup(t, outcome) ==
    CASE outcome = "enable_raw_mode" -> t
      [] outcome = "EnterAlternateScreen" -> [t EXCEPT !.raw = TRUE]
      [] outcome = "EnableMouseCapture" -> [t EXCEPT !.raw = TRUE, !.alt = TRUE]
      [] OTHER -> [raw |-> TRUE, alt |-> TRUE, mouse |-> TRUE]

\* the steps of start after run_app returned, and the step each outcome
\* fails at
TeardownOutcomes == {"ok", "disable_raw_mode", "LeaveAlternateScreen",
                     "DisableMouseCapture", "show_cursor"}
Teardown(t, outcome) ==
    CASE outcome = "disable_raw_mode" -> t
      [] outcome = "LeaveAlternateScreen" -> [t EXCEPT !.raw = FALSE]
      [] outcome = "DisableMouseCapture" -> [t EXCEPT !.raw = FALSE, !.alt = FALSE]
      [] OTHER -> [raw |-> FALSE, alt |-> FALSE, mouse |-> FALSE]

\* run_app returned res: start restores the terminal and returns, Ok only
\* when every step of the teardown succeeded and res is Ok
ReturnFromLoop(res_ok, res) ==
    \E outcome \in TeardownOutcomes :
       /\ term' = Teardown(term, outcome)
       /\ pc' = IF outcome = "ok" /\ res_ok THEN "ui_done" ELSE "failed"
       /\ result' = res

\* start up to the first wait of run_app: the terminal setup, UI::new, the
\* first selection and the first draw
StartUI ==
    /\ pc = "loaded"
    /\ \E outcome \in SetupOutcomes :
          /\ term' = Setup(term, outcome)
          /\ IF outcome = "ok"
             THEN /\ pc' = "ui"
                  /\ rows' = TableDataFromIter(history, iter)
                  /\ selected' = Draw(rows', Some(0))
                  /\ last_clicked_index' = None
                  /\ search' = <<>>
                  /\ result' = None
             ELSE /\ pc' = "failed"
                  /\ UNCHANGED uiVars
    /\ UNCHANGED <<history, iter, GLOBAL_ID, op, prev, file, bakOld, bakBroken, now, tlog>>

\* terminal.draw or event::read returned an error: run_app returns it (an
\* error of a draw is taken as an error of the read that would follow it)
TerminalIOError ==
    /\ pc = "ui"
    /\ ReturnFromLoop(FALSE, None)
    /\ UNCHANGED <<history, iter, GLOBAL_ID, op, prev, file, bakOld, bakBroken, now, tlog>>
    /\ UNCHANGED <<rows, selected, last_clicked_index, search>>

\* a plausible slip: Quit returns the row under the cursor, as Open does
QuitWithSelection ==
    /\ pc = "ui"
    /\ LET sel_row == GetSelectedRow(rows, selected)
       IN ReturnFromLoop(TRUE, IF sel_row = None THEN None ELSE Some(Unwrap(sel_row).id))
    /\ UNCHANGED <<history, iter, GLOBAL_ID, op, prev, file, bakOld, bakBroken, now, tlog>>
    /\ UNCHANGED <<rows, selected, last_clicked_index, search>>

\* AppAction::Quit
Quit ==
    /\ pc = "ui"
    /\ ReturnFromLoop(TRUE, None)
    /\ UNCHANGED <<history, iter, GLOBAL_ID, op, prev, file, bakOld, bakBroken, now, tlog>>
    /\ UNCHANGED <<rows, selected, last_clicked_index, search>>

\* AppAction::SelectNext; a build with overflow checks panics where the
\* other wraps
SelectNext ==
    /\ pc = "ui"
    /\ \E checked \in BOOLEAN :
          IF checked /\ NextOverflows(selected) /\ Len(AsRowsFull(rows)) > 0
          THEN /\ pc' = "failed"
               /\ UNCHANGED <<selected, last_clicked_index>>
          ELSE /\ selected' = Draw(rows, SelectNextState(rows, selected))
               /\ last_clicked_index' = None
               /\ UNCHANGED pc
    /\ UNCHANGED <<history, iter, GLOBAL_ID, op, prev, file, bakOld, bakBroken, now, tlog, term>>
    /\ UNCHANGED <<rows, search, result>>

\* AppAction::SelectPrevious
SelectPrevious ==
    /\ pc = "ui"
    /\ \E checked \in BOOLEAN :
          IF checked /\ NextOverflows(selected) /\ Len(AsRowsFull(rows)) > 0
          THEN /\ pc' = "failed"
               /\ UNCHANGED <<selected, last_clicked_index>>
          ELSE /\ selected' = Draw(rows, SelectPreviousState(rows, selected))
               /\ last_clicked_index' = None
               /\ UNCHANGED pc
    /\ UNCHANGED <<history, iter, GLOBAL_ID, op, prev, file, bakOld, bakBroken, now, tlog, term>>
    /\ UNCHANGED <<rows, search, result>>

\* AppAction::SelectFirst: TableState::select_first
SelectFirst ==
    /\ pc = "ui"
    /\ selected' = Draw(rows, Some(0))
    /\ last_clicked_index' = None
    /\ UNCHANGED <<history, iter, GLOBAL_ID, op, prev, pc, file, bakOld, bakBroken, now, tlog, term>>
    /\ UNCHANGED <<rows, search, result>>

\* AppAction::SelectLast: TableState::select_last
SelectLast ==
    /\ pc = "ui"
    /\ selected' = Draw(rows, Some(UsizeMax))
    /\ last_clicked_index' = None
    /\ UNCHANGED <<history, iter, GLOBAL_ID, op, prev, pc, file, bakOld, bakBroken, now, tlog, term>>
    /\ UNCHANGED <<rows, search, result>>

\* AppAction::OpenSelected
OpenSelected ==
    /\ pc = "ui"
    /\ LET sel_row == GetSelectedRow(rows, selected)
       IN IF sel_row # None
          THEN /\ ReturnFromLoop(TRUE, Some(Unwrap(sel_row).id))
               /\ UNCHANGED selected
          ELSE /\ selected' = Draw(rows, selected)
               /\ UNCHANGED <<pc, result, term>>
    /\ UNCHANGED <<history, iter, GLOBAL_ID, op, prev, file, bakOld, bakBroken, now, tlog>>
    /\ UNCHANGED <<rows, last_clicked_index, search>>

\* AppAction::DeleteSelectedEntry
DeleteSelectedEntry ==
    /\ pc = "ui"
    /\ LET sel_row == GetSelectedRow(rows, selected)
       IN IF sel_row # None
          THEN LET entry_id == Unwrap(sel_row).id
                   deleted == HistoryDeleteRet(history, entry_id)
                   resync == deleted # None /\ ~UIDeleteRet(rows, entry_id)
               IN /\ history' = HistoryDelete(history, entry_id)
                  /\ iter' = Without(iter, entry_id)
                  /\ op' = Call("delete", None, Some(entry_id), None, deleted)
                  /\ prev' = NoOp
                  /\ rows' = IF deleted = None THEN rows
                             ELSE IF resync THEN TableDataFromIter(history', iter')
                             ELSE UIDelete(rows, entry_id)
                  /\ selected' = Draw(rows', IF resync THEN Some(0) ELSE selected)
          ELSE /\ selected' = Draw(rows, selected)
               /\ UNCHANGED <<history, iter, op, prev, rows>>
    /\ last_clicked_index' = None
    /\ UNCHANGED <<GLOBAL_ID, pc, file, bakOld, bakBroken, now, tlog, term, search, result>>

\* a plausible slip: a click on the selected row opens it, whether or not it
\* was clicked before
TableClickOpensSelected(row) ==
    /\ pc = "ui"
    /\ LET clicked_index == row - 2
           sel_row == GetSelectedRow(rows, selected)
       IN IF row >= 2 /\ row < TermHeight - 1 /\ clicked_index < Len(AsRowsFull(rows))
          THEN IF selected = Some(clicked_index) /\ sel_row # None
               THEN /\ ReturnFromLoop(TRUE, Some(Unwrap(sel_row).id))
                    /\ UNCHANGED <<selected, last_clicked_index>>
               ELSE /\ selected' = Draw(rows, Some(clicked_index))
                    /\ last_clicked_index' = Some(clicked_index)
                    /\ UNCHANGED <<pc, result, term>>
          ELSE /\ selected' = Draw(rows, selected)
               /\ UNCHANGED <<pc, result, last_clicked_index, term>>
    /\ UNCHANGED <<history, iter, GLOBAL_ID, op, prev, file, bakOld, bakBroken, now, tlog>>
    /\ UNCHANGED <<rows, search>>

\* AppAction::TableClick(row); the frame starts at row 0 and has TermHeight rows
TableClick(row) ==
    /\ pc = "ui"
    /\ LET clicked_index == row - 2
           visible_rows == Len(AsRowsFull(rows))
           sel_row == GetSelectedRow(rows, selected)
       IN IF row >= 2 /\ row < TermHeight - 1 /\ clicked_index < visible_rows
          THEN IF last_clicked_index = Some(clicked_index) /\ selected = Some(clicked_index)
               THEN IF sel_row # None
                    THEN /\ ReturnFromLoop(TRUE, Some(Unwrap(sel_row).id))
                         /\ UNCHANGED <<selected, last_clicked_index>>
                    ELSE /\ selected' = Draw(rows, selected)
                         /\ UNCHANGED <<pc, result, last_clicked_index, term>>
               ELSE /\ selected' = Draw(rows, Some(clicked_index))
                    /\ last_clicked_index' = Some(clicked_index)
                    /\ UNCHANGED <<pc, result, term>>
          ELSE /\ selected' = Draw(rows, selected)
               /\ UNCHANGED <<pc, result, last_clicked_index, term>>
    /\ UNCHANGED <<history, iter, GLOBAL_ID, op, prev, file, bakOld, bakBroken, now, tlog>>
    /\ UNCHANGED <<rows, search>>

\* the characters typed into the search line
Alphabet == {"a", "B", " "}

\* What TextArea::input does with an event: a character is appended to the
\* first line, the last character is deleted, a later line is edited (the
\* text changes, the first line does not), or nothing is edited
SearchInputs ==
    {[kind |-> "char", c |-> c] : c \in Alphabet}
    \cup {[kind |-> k, c |-> ""] : k \in {"backspace", "other_line", "none"}}

\* the first line after the input
SearchAfter(line, input) ==
    CASE input.kind = "char" -> Append(line, input.c)
      [] input.kind = "backspace" -> SubSeq(line, 1, Len(line) - 1)
      [] OTHER -> line

\* TextArea::input's result: whether the text was modified
SearchModified(line, input) ==
    CASE input.kind = "char" -> TRUE
      [] input.kind = "backspace" -> line # <<>>
      [] input.kind = "other_line" -> TRUE
      [] OTHER -> FALSE

\* AppAction::SearchInput
SearchInput(input) ==
    /\ pc = "ui"
    /\ input.kind = "char" => Len(search) < MaxQuery
    /\ search' = SearchAfter(search, input)
    /\ IF SearchModified(search, input)
       THEN LET filtered == UIApplyFilter(rows, selected, search')
            IN /\ rows' = filtered.rows
               /\ selected' = Draw(rows', filtered.selected)
               /\ last_clicked_index' = None
       ELSE /\ selected' = Draw(rows, selected)
            /\ UNCHANGED <<rows, last_clicked_index>>
    /\ UNCHANGED <<history, iter, GLOBAL_ID, op, prev, pc, file, bakOld, bakBroken, now, tlog, term>>
    /\ UNCHANGED result

------------------------------------------------------------------------------
(* main, Commands::Recent: the selector, the launch of the chosen entry, the
   update of its record, and store *)

\* a plausible slip: the lookup takes the first entry the history iterates
StartResultFirstEntry == IF result # None /\ iter # <<>> THEN Some(iter[1]) ELSE None

\* ui::start's result: the chosen entry, looked up in the history
StartResult == IF result # None /\ Unwrap(result) \in DOMAIN history THEN result ELSE None

\* Setup::launch's result: the dev container that was used, by its config
\* path; detected is what the workspace folder holds
LaunchResult(strategy, config, detected) ==
    CASE strategy = "force-classic" -> None
      [] OTHER -> IF config # None THEN config ELSE detected

\* the dev container configs a workspace folder may hold when it is launched
DetectedIn(path) == IF path = PathA THEN {None, Some(ConfigC)} ELSE {None}

\* the launch options of the Recent command: --command and --config
LaunchFlags ==
    [command : {None, Some("code-insiders")}, config : {None, Some(ConfigC)}]

\* the entry main writes back after the launch
RecentEntry(entry, launch, detected) ==
    LET behavior == IF launch.command # None
                    THEN [entry.behavior EXCEPT !.command = Unwrap(launch.command)]
                    ELSE entry.behavior
        config_path == IF launch.config # None THEN launch.config ELSE entry.config_path
        dev_container == LaunchResult(behavior.strategy, config_path, detected)
    IN Entry(WorkspaceName(entry.workspace_path), DevContainerName(dev_container),
             entry.workspace_path, dev_container, behavior, now)

\* Recent when the selector returned nothing
RecentNothing ==
    /\ pc = "ui_done"
    /\ StartResult = None
    /\ pc' = "command_done"
    /\ UNCHANGED <<history, iter, GLOBAL_ID, op, prev, file, bakOld, bakBroken, now, tlog, term>>
    /\ UNCHANGED uiVars

\* Recent when the selector returned an entry: the overrides, the launch and
\* History::update of the entry's record
RecentLaunch(launch, detected) ==
    /\ pc = "ui_done"
    /\ StartResult # None
    /\ LET id == Unwrap(StartResult)
           entry == RecentEntry(history[id], launch, detected)
       IN /\ detected \in DetectedIn(history[id].workspace_path)
          /\ history' = HistoryUpdate(history, id, entry)
          /\ op' = Call("update", Some(entry), Some(id), None, HistoryUpdateRet(history, id))
    /\ prev' = NoOp
    /\ pc' = "command_done"
    /\ UNCHANGED <<iter, GLOBAL_ID, file, bakOld, bakBroken, now, tlog, term>>
    /\ UNCHANGED uiVars

\* Recent when Workspace::from_path or the launch fails: the error ends the
\* process before the update and before store
RecentFails ==
    /\ pc = "ui_done"
    /\ StartResult # None
    /\ pc' = "failed"
    /\ UNCHANGED <<history, iter, GLOBAL_ID, op, prev, file, bakOld, bakBroken, now, tlog, term>>
    /\ UNCHANGED uiVars

\* The records of the history file, in the order earlier runs made them:
\* /a opened before it had a dev container, /a opened in its dev container,
\* /b, and /a opened with another editor command
RecentRecords ==
    <<Launched(PathA, None, BehaviorCode, 1),
      Launched(PathA, Some(ConfigC), BehaviorCode, 2),
      Launched(PathB, None, BehaviorCode, 3),
      Launched(PathA, None, BehaviorInsiders, 4)>>

RecentInit ==
    /\ history = <<>>
    /\ iter = <<>>
    /\ GLOBAL_ID = 0
    /\ op = NoOp
    /\ prev = NoOp
    /\ pc = "start"
    /\ \E n \in 0..MaxRecentFile :
          /\ n <= Len(RecentRecords)
          /\ file = IF n = 0 THEN None ELSE Some(FileContent(Take(RecentRecords, n)))
    /\ now = Len(RecentRecords) + 1
    /\ bakOld = {}
    /\ bakBroken = {}
    /\ tlog = NoCall
    /\ term = TermInit
    /\ rows = <<>>
    /\ selected = None
    /\ last_clicked_index = None
    /\ search = <<>>
    /\ result = None

RecentNext ==
    \/ LoadAbsent
    \/ LoadParsed
    \/ StartUI
    \/ TerminalIOError
    \/ Quit
    \/ SelectNext
    \/ SelectPrevious
    \/ SelectFirst
    \/ SelectLast
    \/ OpenSelected
    \/ DeleteSelectedEntry
    \/ \E row \in 0..(TermHeight - 1) : TableClick(row)
    \/ \E input \in SearchInputs : SearchInput(input)
    \/ RecentNothing
    \/ \E launch \in LaunchFlags, detected \in {None, Some(ConfigC)} : RecentLaunch(launch, detected)
    \/ RecentFails
    \/ \E outcome \in StoreOutcomes : Store(outcome)

SpecRecent == RecentInit /\ [][RecentNext]_vars

------------------------------------------------------------------------------
(* TableData under any sequence of its operations: build, apply_filter,
   reset_filter, the removal of a row and the rebuild.  Here op is the last
   operation of the view and prev the one before it, kept when that one was
   apply_filter with the empty pattern. *)

ViewCall(n, q, c) == [name |-> n, pattern |-> q, changes |-> c]

\* the patterns apply_filter is called with: the empty one, a blank one, one
\* word in either case, a word of two characters, two words, and a word no
\* field matches
Queries ==
    {<<>>, <<" ">>, <<"a">>, <<"B">>, <<"/", "a">>, <<"a", " ", "/">>, <<"a", "B">>}

\* what the log keeps of the call before this one
ViewPrev == IF op.name = "apply_filter" /\ op.pattern = <<>> THEN op ELSE NoOp

\* TableData::from_iter over the history, as UI::new calls it
ViewBuild ==
    /\ pc = "loaded"
    /\ pc' = "view"
    /\ rows' = TableDataFromIter(history, iter)
    /\ op' = ViewCall("build", <<>>, FALSE)
    /\ prev' = NoOp
    /\ UNCHANGED <<history, iter, GLOBAL_ID, file, bakOld, bakBroken, now, tlog, term>>
    /\ UNCHANGED <<selected, last_clicked_index, search, result>>

\* TableData::apply_filter
ViewApplyFilter(pattern) ==
    /\ pc = "view"
    /\ rows' = TableApplyFilter(rows, pattern)
    /\ op' = ViewCall("apply_filter", pattern, TableApplyFilterChanges(rows, pattern))
    /\ prev' = ViewPrev
    /\ UNCHANGED <<history, iter, GLOBAL_ID, pc, file, bakOld, bakBroken, now, tlog, term>>
    /\ UNCHANGED <<selected, last_clicked_index, search, result>>

\* TableData::reset_filter
ViewResetFilter ==
    /\ pc = "view"
    /\ rows' = TableResetFilter(rows)
    /\ op' = ViewCall("reset_filter", <<>>, FALSE)
    /\ prev' = ViewPrev
    /\ UNCHANGED <<history, iter, GLOBAL_ID, pc, file, bakOld, bakBroken, now, tlog, term>>
    /\ UNCHANGED <<selected, last_clicked_index, search, result>>

\* History::delete and UI::delete of the same entry, as the Delete action
\* calls them
ViewRemoveRow(entry_id) ==
    /\ pc = "view"
    /\ UIDeleteRet(rows, entry_id)
    /\ history' = HistoryDelete(history, entry_id)
    /\ iter' = Without(iter, entry_id)
    /\ rows' = UIDelete(rows, entry_id)
    /\ op' = ViewCall("remove_row", <<>>, FALSE)
    /\ prev' = ViewPrev
    /\ UNCHANGED <<GLOBAL_ID, pc, file, bakOld, bakBroken, now, tlog, term>>
    /\ UNCHANGED <<selected, last_clicked_index, search, result>>

\* UI::resync_table: the view is built again from the history
ViewRebuild ==
    /\ pc = "view"
    /\ rows' = TableDataFromIter(history, iter)
    /\ selected' = Some(0)
    /\ op' = ViewCall("rebuild", <<>>, FALSE)
    /\ prev' = ViewPrev
    /\ UNCHANGED <<history, iter, GLOBAL_ID, pc, file, bakOld, bakBroken, now, tlog, term>>
    /\ UNCHANGED <<last_clicked_index, search, result>>

ViewNext ==
    \/ LoadAbsent
    \/ LoadParsed
    \/ ViewBuild
    \/ \E pattern \in Queries : ViewApplyFilter(pattern)
    \/ ViewResetFilter
    \/ \E entry_id \in 0..(MaxRecentFile - 1) : ViewRemoveRow(entry_id)
    \/ ViewRebuild

SpecView == RecentInit /\ [][ViewNext]_vars

------------------------------------------------------------------------------
(* The History of one process: Tracker::load, then any sequence of method
   calls on the loaded History *)

\* the entries the methods are called with: a record of the file again, and
\* an entry of another workspace
LoadedEntries == {RecentRecords[1], Launched(PathN(9), None, BehaviorCode, Len(RecentRecords) + 1)}

LoadedNext ==
    \/ LoadAbsent
    \/ LoadParsed
    \/ (pc = "loaded" /\ \E e \in LoadedEntries : Insert(e))
    \/ (pc = "loaded" /\ \E e \in LoadedEntries, id \in 0..GLOBAL_ID : Update(id, e))
    \/ (pc = "loaded" /\ \E id \in 0..GLOBAL_ID : Delete(id))
    \/ (pc = "loaded" /\ \E e \in LoadedEntries : Upsert(e))

SpecLoaded == RecentInit /\ [][LoadedNext]_vars

------------------------------------------------------------------------------
(* Claims about the History methods, checked under SpecHistory *)

SameTriple(a, b) == Triple(a) = Triple(b)

\* the keys of h whose entry has the triple of r
KeysOfTriple(h, r) == {i \in DOMAIN h : SameTriple(h[i], r)}

\* C2: upsert(r) replaces, under its identifier, a stored record with r's
\* triple and leaves the set of identifiers and every other entry alone; with
\* no such record it adds r under a fresh identifier and leaves every
\* existing entry alone; it returns the identifier r is stored under.
C2_UpsertContract ==
    [][op'.name = "upsert" =>
        LET r == Unwrap(op'.entry)
            id == Unwrap(op'.retId)
            same == KeysOfTriple(history, r)
        IN IF same # {}
           THEN /\ id \in same
                /\ DOMAIN history' = DOMAIN history
                /\ history'[id] = r
                /\ \A i \in DOMAIN history \ {id} : history'[i] = history[i]
           ELSE /\ id \notin DOMAIN history
                /\ id >= GLOBAL_ID
                /\ DOMAIN history' = DOMAIN history \cup {id}
                /\ history'[id] = r
                /\ \A i \in DOMAIN history : history'[i] = history[i]]_vars

\* an upsert that replaced the record of the upsert before it, next to another entry
C2_Witness ==
    /\ op.name = "upsert"
    /\ prev.name = "upsert"
    /\ op.retId = prev.retId
    /\ op.entry # prev.entry
    /\ Cardinality(DOMAIN history) = 2

\* C3: after two upserts in a row of records with the same triple, from any
\* store state, exactly one stored entry has that triple, both calls returned
\* the same identifier, and the entry holds the second call's argument.
C3_UpsertTwiceExactlyOne ==
    (op.name = "upsert" /\ prev.name = "upsert"
        /\ SameTriple(Unwrap(prev.entry), Unwrap(op.entry)))
    => /\ Cardinality(KeysOfTriple(history, Unwrap(op.entry))) = 1
       /\ op.retId = prev.retId
       /\ history[Unwrap(op.retId)] = Unwrap(op.entry)

\* a and b agree on everything but last_opened and the two names
DifferOnlyVolatile(a, b) ==
    /\ a.workspace_path = b.workspace_path
    /\ a.config_path = b.config_path
    /\ a.behavior = b.behavior

\* the records in play: those stored and those the last two calls were given
InPlay == {history[i] : i \in DOMAIN history} \cup op.entry \cup prev.entry

------------------------------------------------------------------------------
(* Claims about Tracker::load and Tracker::store, checked under SpecTracker *)

StoreSucceeded == tlog.call = "store" /\ tlog.ret = "ok" /\ pc = "done"

\* the records store wrote, and those of the history it was called on
Written == FileEntries(Unwrap(file))
Stored == {history[i] : i \in DOMAIN history}

\* C5: after a successful store the file holds min(n, MAX_HISTORY_ENTRIES)
\* records of the n stored ones, and no record left out is more recent than
\* a record written.
C5_StoreKeepsMostRecent ==
    StoreSucceeded =>
        /\ Len(Written) = (IF Cardinality(DOMAIN history) < MAX_HISTORY_ENTRIES
                           THEN Cardinality(DOMAIN history) ELSE MAX_HISTORY_ENTRIES)
        /\ Range(Written) \subseteq Stored
        /\ \A d \in Stored \ Range(Written), k \in Range(Written) :
              d.last_opened <= k.last_opened

\* C6: after a successful store the file holds at most MAX_HISTORY_ENTRIES
\* records, however many the history holds.
C6_StoreIsCapped ==
    StoreSucceeded => Len(Written) <= MAX_HISTORY_ENTRIES

\* a successful store of a history that holds more than the cap
C6_Witness ==
    /\ StoreSucceeded
    /\ Cardinality(DOMAIN history) > MAX_HISTORY_ENTRIES

\* C7: the records store writes are ordered by last_opened, newest first.
C7_StoreWritesNewestFirst ==
    StoreSucceeded =>
        \A i, j \in DOMAIN Written :
            i < j => Written[i].last_opened >= Written[j].last_opened

\* a step of load that read a history file that does not parse
LoadOfBrokenFile ==
    /\ pc = "start"
    /\ pc' # "start"
    /\ file # None
    /\ ~Parses(Unwrap(file))
    /\ tlog'.error # "open"

\* C8 as stated: load of an unparsable file returns an empty store and moves
\* the file to a backup name that did not exist; whatever backup files
\* exist, none is overwritten and the history path is left without a file
\* (stated here for the loads whose rename succeeds).
C8_BackupNeverOverwrites ==
    [][(LoadOfBrokenFile /\ tlog'.error # "rename") =>
        /\ pc' = "loaded"
        /\ history' = <<>>
        /\ file' = None
        /\ bakOld' = bakOld
        /\ \E t \in tlog'.movedTo : t \notin bakOld \cup bakBroken /\ t \in bakBroken']_vars

\* C8, amended: load of an unparsable file either fails with the error of
\* the rename and changes no file, or returns an empty store and leaves the
\* history path without a file; the file is then at the first name
\* .history_{i}.json.bak, i < 10000, that did not exist, and no file is
\* overwritten, unless all of these exist: then it is at .history.json.bak,
\* replacing the file of that name if there is one.
C8_BackupProbesThenFallsBack ==
    [][LoadOfBrokenFile =>
        \/ /\ tlog'.ret = "err"
           /\ tlog'.error = "rename"
           /\ pc' = "failed"
           /\ UNCHANGED fsVars
        \/ /\ tlog'.ret = "ok"
           /\ pc' = "loaded"
           /\ history' = <<>>
           /\ file' = None
           /\ LET existing == bakOld \cup bakBroken
                  t == Unwrap(tlog'.movedTo)
              IN /\ bakBroken' = bakBroken \cup {t}
                 /\ IF \E i \in BackupNames : i \notin existing
                    THEN /\ t \in BackupNames
                         /\ t \notin existing
                         /\ \A j \in 0..(t - 1) : j \in existing
                         /\ bakOld' = bakOld
                    ELSE /\ t = FallbackName
                         /\ bakOld' = bakOld \ {FallbackName}]_vars

\* a broken file was moved to a numbered name past the backups that existed
C8_Witness ==
    /\ tlog.call = "load"
    /\ tlog.fileWas = "broken"
    /\ tlog.ret = "ok"
    /\ \E t \in tlog.movedTo : t > 0 /\ t \in bakBroken /\ (0..(t - 1)) \subseteq bakOld

\* C9 as stated: whenever the history file exists and does not parse, load
\* succeeds with an empty history and the run goes on, whether or not the
\* file could be moved aside.
C9_BrokenFileNeverFatal ==
    (tlog.call = "load" /\ tlog.fileWas = "broken" /\ tlog.error # "open")
    => /\ tlog.ret = "ok"
       /\ pc # "start"
       /\ (pc = "loaded" => history = <<>>)

\* C9, amended: when the history file can be opened and does not parse, the
\* parse error itself is never fatal: if the file can be moved aside, load
\* succeeds with an empty history and the run goes on; only if the move
\* fails does load fail, and main ends with that error.
C9_BrokenFileFatalOnlyIfMoveFails ==
    (tlog.call = "load" /\ tlog.fileWas = "broken" /\ tlog.error # "open")
    => /\ tlog.error \in {"none", "rename"}
       /\ tlog.error = "none" =>
             /\ tlog.ret = "ok"
             /\ pc # "start"
             /\ (pc = "loaded" => history = <<>> /\ file = None)
       /\ tlog.error = "rename" =>
             /\ tlog.ret = "err"
             /\ pc = "failed"
             /\ file # None

\* the run went on to upsert after load had moved a broken file aside
C9_Witness ==
    /\ tlog.call = "load"
    /\ tlog.fileWas = "broken"
    /\ tlog.ret = "ok"
    /\ pc = "command_done"
    /\ DOMAIN history # {}

------------------------------------------------------------------------------
(* Claims about the history as the commands leave it *)

\* C1: in every reachable state of the History store, the update performed by
\* the Recent command included, no two stored records have the same
\* (workspace_path, config_path, behavior) triple.
C1_NoTwoRecordsShareATriple ==
    \A i, j \in DOMAIN history :
        i # j => Triple(history[i]) # Triple(history[j])

------------------------------------------------------------------------------
(* Claims about the selector *)

\* the number of rows the selector shows
VisibleRows == Len(AsRowsFull(rows))

DeleteStep == pc = "ui" /\ pc' = "ui" /\ DOMAIN history' # DOMAIN history

\* the visible rows before and after a step
ViewBefore == AsRowsFull(rows)
ViewAfter == AsRowsFull(rows')

\* the cursor is not past the last index of the view after the step
CursorValidAfter == \A index \in selected' : index < Len(ViewAfter)

\* C11 as stated: after a Delete on the row under the cursor, the cursor
\* index is unchanged and shows the row that followed when the deleted row was
\* not the last visible one, and is 0 when it was the last or the only one
\* (a view left empty has no row 0: no cursor is accepted there); either way
\* it is not past the new last index.
C11_DeleteReclampsToZero ==
    [][DeleteStep =>
        LET i == Unwrap(selected)
        IN /\ IF i < Len(ViewBefore) - 1
              THEN selected' = Some(i) /\ ViewAfter[i + 1] = ViewBefore[i + 2]
              ELSE \/ selected' = Some(0)
                   \/ (ViewAfter = <<>> /\ selected' = None)
           /\ CursorValidAfter]_vars

\* C11 amended: after a Delete on the row under the cursor, the cursor index
\* is unchanged and shows the row that followed when the deleted row was not
\* the last visible one; when it was the last of several the cursor moves to
\* the new last index; when it was the only one the view is empty and there
\* is no cursor.  The cursor is never past the new last index.
C11_DeleteKeepsIndexOrMovesToLast ==
    [][DeleteStep =>
        LET i == Unwrap(selected)
            n == Len(ViewBefore)
        IN /\ selected # None /\ i < n
           /\ Len(ViewAfter) = n - 1
           /\ IF i < n - 1
              THEN selected' = Some(i) /\ ViewAfter[i + 1] = ViewBefore[i + 2]
              ELSE IF n >= 2 THEN selected' = Some(n - 2)
              ELSE selected' = None
           /\ CursorValidAfter]_vars

\* the oldest of three records, shown in the last row, was deleted, and the
\* cursor is on the new last row, index 1
C11_Witness ==
    /\ pc = "ui"
    /\ op.name = "delete"
    /\ op.id = Some(0)
    /\ search = <<>>
    /\ Len(rows) = 2
    /\ VisibleRows = 2
    /\ selected = Some(1)

\* the events of the loop other than Delete
OtherEvents ==
    \/ Quit
    \/ SelectNext
    \/ SelectPrevious
    \/ SelectFirst
    \/ SelectLast
    \/ OpenSelected
    \/ \E row \in 0..(TermHeight - 1) : TableClick(row)
    \/ \E input \in SearchInputs : SearchInput(input)

\* the identifier of the record shown at the cursor index before the step
IdUnderCursor == ViewBefore[Unwrap(selected) + 1].id

\* C12: navigation, text input and filtering, clicks, Open and Quit leave the
\* History store unchanged; within the loop only Delete changes it, and it
\* removes exactly the record under the cursor.
C12_OnlyDeleteChangesStore ==
    [][/\ OtherEvents => history' = history /\ iter' = iter
       /\ (pc = "ui" /\ history' # history) =>
             /\ selected # None /\ Unwrap(selected) < Len(ViewBefore)
             /\ IdUnderCursor \in DOMAIN history
             /\ DOMAIN history' = DOMAIN history \ {IdUnderCursor}
             /\ \A id \in DOMAIN history' : history'[id] = history[id]
             /\ op' = Call("delete", None, Some(IdUnderCursor), None,
                           Some(history[IdUnderCursor]))]_vars

\* a record was deleted while a filter hid another row, and the two other
\* records are still in the store
C12_Witness ==
    /\ pc = "ui"
    /\ op.name = "delete"
    /\ search # <<>>
    /\ VisibleRows < Len(rows)
    /\ GLOBAL_ID = 3
    /\ Cardinality(DOMAIN history) = 2
    /\ Unwrap(op.id) \notin DOMAIN history
    /\ selected # None

\* the identifiers of the rows of a view, in order
Ids(view) == [k \in DOMAIN view |-> view[k].id]

\* a step in which a text input changes the query and with it the rows shown
\* or their order
FilterChangesView ==
    /\ pc = "ui"
    /\ search' # search
    /\ Ids(ViewAfter) # Ids(ViewBefore)

\* C13: when a text input changes the query and thereby the visibility or the
\* order of the rows, the cursor afterwards is at the new index of the record
\* it was on, if that record is still visible, and otherwise at the first
\* visible row (an empty view has no cursor).
C13_CursorFollowsRecord ==
    [][FilterChangesView =>
        IF /\ selected # None
           /\ Unwrap(selected) < Len(ViewBefore)
           /\ \E k \in DOMAIN ViewAfter : ViewAfter[k].id = IdUnderCursor
        THEN /\ selected' # None
             /\ Unwrap(selected') < Len(ViewAfter)
             /\ ViewAfter[Unwrap(selected') + 1].id = IdUnderCursor
        ELSE IF ViewAfter # <<>> THEN selected' = Some(0) ELSE selected' = None]_vars

\* a filter is active, hides a row, and the cursor is on a row other than the
\* first
C13_Witness ==
    /\ pc = "ui"
    /\ search # <<>>
    /\ ~TrimIsEmpty(search)
    /\ last_clicked_index = None
    /\ VisibleRows < Len(rows)
    /\ selected # None
    /\ Unwrap(selected) >= 1
    /\ op.name = "none"

\* C14: an Open action with the cursor on a visible row ends the loop and
\* returns the identifier of exactly the record shown at the cursor index in
\* the current visible order, filtered or not, and start() returns that
\* identifier with the record the store holds for it (start returns at all
\* only when restoring the terminal met no error).
C14_OpenReturnsRecordUnderCursor ==
    [][(OpenSelected /\ selected # None /\ Unwrap(selected) < Len(ViewBefore)) =>
          /\ pc' \in {"ui_done", "failed"}
          /\ result' = Some(IdUnderCursor)
          /\ StartResult' = Some(IdUnderCursor)
          /\ IdUnderCursor \in DOMAIN history'
          /\ history'[IdUnderCursor] = ViewBefore[Unwrap(selected) + 1].entry]_vars

\* the loop returned the record of the second visible row while a filter hid
\* another row
C14_Witness ==
    /\ pc = "ui_done"
    /\ search # <<>>
    /\ VisibleRows < Len(rows)
    /\ selected = Some(1)
    /\ result = Some(AsRowsFull(rows)[2].id)
    /\ StartResult = result

\* every row of the view, hidden or not, is the row of a record of the store
\* and holds that record
ViewWithinStoreAfter ==
    \A k \in DOMAIN rows' :
        /\ rows'[k].id \in DOMAIN history'
        /\ rows'[k].entry = history'[rows'[k].id]

\* C15: a Delete with the cursor on a visible row removes that record from
\* the store and its row from the view; if the store's delete succeeded and
\* the view's removal did not find the row, the view is rebuilt from the
\* store; in every case the view shows no row of a record that is no longer
\* in the store.
C15_DeleteRemovesRecordAndRow ==
    [][/\ (pc = "ui" /\ selected # None /\ Unwrap(selected) < Len(ViewBefore)
             /\ DeleteSelectedEntry) =>
             /\ IdUnderCursor \notin DOMAIN history'
             /\ Ids(rows') = Without(Ids(rows), IdUnderCursor)
             /\ ~UIDeleteRet(rows, IdUnderCursor) =>
                    rows' = TableDataFromIter(history', iter')
       /\ pc' \in {"ui", "ui_done"} => ViewWithinStoreAfter]_vars

\* two of three records were deleted; the view has the one row of the record
\* that is left
C15_Witness ==
    /\ pc = "ui"
    /\ op.name = "delete"
    /\ GLOBAL_ID = 3
    /\ Cardinality(DOMAIN history) = 1
    /\ Len(rows) = 1
    /\ rows[1].id \in DOMAIN history
    /\ Unwrap(op.id) \notin DOMAIN history

\* a filter is active: the query has a character that is not white space
FilterActive == ~TrimIsEmpty(search)

\* rows i < j are in the order the spec gives for the current query
InSpecOrder(i, j) ==
    IF FilterActive
    THEN /\ ScoreOrZero(rows[i]) >= ScoreOrZero(rows[j])
         /\ rows[i].search_score = rows[j].search_score =>
               rows[i].entry.last_opened >= rows[j].entry.last_opened
    ELSE rows[i].entry.last_opened >= rows[j].entry.last_opened

\* C16: in every state of the view (after build, apply_filter, reset_filter,
\* row removal and rebuild, in any order) the rows are sorted: by last_opened
\* descending when no filter is active, by score descending when one is,
\* rows of equal score in recency order.
C16_RowsAlwaysSorted ==
    pc \in {"ui", "ui_done"} =>
        \A i, j \in DOMAIN rows : i < j => InSpecOrder(i, j)

------------------------------------------------------------------------------
(* Claims about the filter *)

\* needle is a subsequence of hay, not necessarily contiguous, letters
\* compared without case
IsSubsequence(needle, hay) ==
    \E f \in [DOMAIN needle -> DOMAIN hay] :
        /\ \A i, j \in DOMAIN needle : i < j => f[i] < f[j]
        /\ \A i \in DOMAIN needle : Lower(needle[i]) = Lower(hay[f[i]])

\* the three fields of an entry the filter looks at
SearchFields(entry) ==
    <<entry.workspace_name, OrEmpty(entry.dev_container_name), entry.workspace_path>>

\* the last operation of the view was apply_filter with a pattern that is not
\* blank
AppliedFilter == op.name = "apply_filter" /\ ~TrimIsEmpty(op.pattern)

\* C17 as stated: after apply_filter(q) with a non-empty query a row is
\* visible if and only if q is a subsequence, without case, of at least one
\* of its workspace name, container name or path.
C17_VisibleIffQueryIsSubsequence ==
    AppliedFilter =>
        \A k \in DOMAIN rows :
            rows[k].search_score # None <=>
                \E n \in 1..3 : IsSubsequence(op.pattern, SearchFields(rows[k].entry)[n])

\* every word of the pattern is a subsequence of the field
AllWordsMatch(pattern, field) ==
    \A w \in Range(Words(pattern)) : IsSubsequence(w, field)

\* the sum of the scores of the fields that match
SumOfMatchingFields(pattern, entry) ==
    LET part(n) == IF AllWordsMatch(pattern, SearchFields(entry)[n])
                   THEN Unwrap(PatternScore(pattern, SearchFields(entry)[n]))
                   ELSE 0
    IN part(1) + part(2) + part(3)

\* C17 amended: after apply_filter(q) with a non-empty query a row is visible
\* if and only if at least one of its workspace name, container name or path
\* has every white-space separated word of q as a subsequence, without case
\* (a blank q has no word, so every row is visible); the score of a visible
\* row is the sum of the scores of the fields that match; a row with no
\* matching field has no score and is kept in the view, hidden.
C17_VisibleIffEveryWordMatchesAField ==
    (op.name = "apply_filter" /\ op.pattern # <<>>) =>
        /\ Len(rows) = Cardinality(DOMAIN history)
        /\ \A k \in DOMAIN rows :
              LET entry == rows[k].entry
                  matches == \E n \in 1..3 : AllWordsMatch(op.pattern, SearchFields(entry)[n])
              IN /\ rows[k].search_score # None <=> matches
                 /\ matches => rows[k].search_score = Some(SumOfMatchingFields(op.pattern, entry))

\* the pattern "a /" was applied to three rows: the rows of /a are visible
\* (both words are in the path) and the row of /b is hidden
C17_Witness ==
    /\ op.name = "apply_filter"
    /\ op.pattern = <<"a", " ", "/">>
    /\ Len(rows) = 3
    /\ \E k \in DOMAIN rows : rows[k].search_score = None
    /\ \E k \in DOMAIN rows :
          /\ rows[k].search_score # None
          /\ rows[k].entry.workspace_path = PathA

\* C18: for any view, apply_filter("") followed by reset_filter() yields
\* exactly the row order that the build produces (the same sequence of record
\* identifiers), with every row visible at the neutral score.
C18_EmptyFilterThenResetRestoresBuild ==
    (op.name = "reset_filter" /\ prev.name = "apply_filter" /\ prev.pattern = <<>>) =>
        /\ Ids(rows) = Ids(TableDataFromIter(history, iter))
        /\ \A k \in DOMAIN rows : rows[k].search_score = Some(0)

\* the identifiers of the visible rows of a view
VisibleIds(rs) == {AsRowsFull(rs)[k].id : k \in DOMAIN AsRowsFull(rs)}

\* C19: for every query q the rows visible after apply_filter(q) are among
\* the rows visible with the empty query, and the empty query hides no row:
\* with it every row of the view is visible.
C19_EmptyQueryHidesNothing ==
    pc = "view" =>
        /\ VisibleIds(TableApplyFilter(rows, <<>>)) = Range(Ids(rows))
        /\ \A q \in Queries :
              VisibleIds(TableApplyFilter(rows, q)) \subseteq
                  VisibleIds(TableApplyFilter(rows, <<>>))
        /\ (op.name = "apply_filter" /\ op.pattern = <<>>) =>
              \A k \in DOMAIN rows : rows[k].search_score # None

\* the empty query was applied to a view of three rows that another query
\* had filtered, and the three rows are visible
C19_Witness ==
    /\ pc = "view"
    /\ op.name = "apply_filter"
    /\ op.pattern = <<>>
    /\ op.changes
    /\ Len(rows) = 3
    /\ Cardinality(VisibleIds(rows)) = 3

------------------------------------------------------------------------------
(* Claims about navigation *)

\* C20: on a view with n > 0 visible rows and the cursor on i, SelectNext
\* moves the cursor to (i + 1) mod n, SelectPrevious to (i - 1) mod n,
\* SelectFirst to 0 and SelectLast to n - 1; on a view with no visible row
\* every navigation action leaves the cursor as it was.
C20_NavigationWraps ==
    [][(pc = "ui" /\ pc' = "ui") =>
        LET n == Len(ViewBefore)
            i == Unwrap(selected)
        IN IF n > 0
           THEN /\ selected # None
                /\ SelectNext => selected' = Some((i + 1) % n)
                /\ SelectPrevious => selected' = Some((i + n - 1) % n)
                /\ SelectFirst => selected' = Some(0)
                /\ SelectLast => selected' = Some(n - 1)
           ELSE (SelectNext \/ SelectPrevious \/ SelectFirst \/ SelectLast) =>
                    selected' = selected]_vars

\* the cursor is on the last of three rows after a navigation action, with
\* no filter and nothing deleted
C20_Witness ==
    /\ pc = "ui"
    /\ op.name = "none"
    /\ search = <<>>
    /\ last_clicked_index = None
    /\ VisibleRows = 3
    /\ selected = Some(2)

------------------------------------------------------------------------------
(* Claims about clicks and the ends of the loop *)

\* the terminal rows that show a row of the view, and the index each shows
ClickedIndex(row) == row - 2
OnVisibleRow(row) ==
    row >= 2 /\ row < TermHeight - 1 /\ ClickedIndex(row) < Len(ViewBefore)

\* the row was clicked by the click before and is still selected
AlreadyClickedAndSelected(row) ==
    last_clicked_index = Some(ClickedIndex(row)) /\ selected = Some(ClickedIndex(row))

\* a navigation, a delete or a change of the filter
ClickTrackingResets ==
    \/ SelectNext
    \/ SelectPrevious
    \/ SelectFirst
    \/ SelectLast
    \/ DeleteSelectedEntry
    \/ (pc = "ui" /\ (search' # search \/ rows' # rows))

StartRunning == pc = "ui"

\* C22: on every exit path of the selector (Open, Quit, a terminal I/O error
\* inside the loop, a failure of a setup or teardown step after raw mode was
\* enabled) the terminal is restored before start returns: raw mode is
\* disabled, the alternate screen and the mouse capture are left.
C22_TerminalRestoredOnReturn ==
    ~StartRunning => (~term.raw /\ ~term.alt /\ ~term.mouse)

\* a navigation, an Open or a Delete
NavigationOpenOrDelete ==
    \/ SelectNext
    \/ SelectPrevious
    \/ SelectFirst
    \/ SelectLast
    \/ OpenSelected
    \/ DeleteSelectedEntry

\* C23: with no visible rows (an empty history, or a filter that matches
\* nothing) the navigation, Open and Delete actions are no-ops: the loop keeps
\* running, the store and the view are unchanged, the cursor is unchanged and
\* no error is raised.
C23_NoOpsOnEmptyView ==
    [][(NavigationOpenOrDelete /\ VisibleRows = 0) =>
          /\ pc' = "ui"
          /\ UNCHANGED <<history, iter, op, file>>
          /\ UNCHANGED <<rows, search>>
          /\ UNCHANGED selected
          /\ UNCHANGED <<result, term>>]_vars

\* the loop waits with records in the store and a filter that matches none
C23_Witness ==
    /\ pc = "ui"
    /\ VisibleRows = 0
    /\ Len(rows) >= 2
    /\ DOMAIN history # {}
    /\ ~TrimIsEmpty(search)
    /\ selected = None

\* the loop ran before the step and has ended after it
LoopEnds == pc = "ui" /\ pc' # "ui"

\* an Open, or a second click on the selected row
OpenOrSecondClick ==
    \/ OpenSelected
    \/ \E row \in 0..(TermHeight - 1) : TableClick(row) /\ AlreadyClickedAndSelected(row)

\* the input events that are neither Quit, nor Open, nor a click
EventsThatNeverEnd ==
    \/ SelectNext
    \/ SelectPrevious
    \/ SelectFirst
    \/ SelectLast
    \/ DeleteSelectedEntry
    \/ \E input \in SearchInputs : SearchInput(input)

------------------------------------------------------------------------------
(* Claims about the Recent command after the selector *)

\* start returned Ok before the step, and the process has ended after it
ProcessEndsAfterSelector ==
    pc \in {"ui_done", "command_done"} /\ pc' \in {"done", "failed"}

\* store was called in the step and returned an error
StoreFailed == tlog'.call = "store" /\ tlog'.ret = "err"

\* the records of the history file after the step that the store no longer
\* holds: in the Recent command, the records deleted in the selector
DeletedButInFile ==
    IF file' = None THEN {}
    ELSE {r \in Range(FileEntries(Unwrap(file'))) : \A id \in DOMAIN history' : history'[id] # r}

\* C25: after the selector ended, with a selection or with none, the caller
\* persists the History store: no record deleted during the session is in the
\* history file when the process ends (the ends where store itself reported an
\* error are left aside here).
C25_DeletedRecordsLeaveTheFile ==
    [][(ProcessEndsAfterSelector /\ ~StoreFailed) => DeletedButInFile = {}]_vars

\* the step is the write-back of the Recent command after a launch
RelaunchStep == pc = "ui_done" /\ pc' = "command_done" /\ op'.name = "update"

\* C26: after a record chosen in the selector is launched again, the store
\* holds exactly one record with the launched (workspace_path, config_path,
\* behavior) triple, its last_opened is the new time, and the number of
\* stored records has not grown.
C26_RelaunchLeavesOneRecordOfTheTriple ==
    [][RelaunchStep =>
          LET launched == Unwrap(op'.entry)
              same == KeysOfTriple(history', launched)
          IN /\ Cardinality(same) = 1
             /\ \A id \in same : history'[id].last_opened = now
             /\ Cardinality(DOMAIN history') <= Cardinality(DOMAIN history)]_vars

------------------------------------------------------------------------------
(* Claims about the end of the process, checked under SpecTracker *)

\* the step is a call of store
StoreStep == pc = "command_done" /\ tlog'.call = "store"

\* C27: store returns an error when the parent directory cannot be created or
\* the file cannot be created or written, and only then; the error is the
\* result of the process; the launch that came before is not undone: the
\* store still holds the launched record.
C27_StoreErrorsEndTheProcess ==
    [][StoreStep =>
          /\ (tlog'.ret = "err") <=> (tlog'.error \in {"dir", "create", "write"})
          /\ (tlog'.ret = "ok") <=> (tlog'.error = "none")
          /\ pc' = (IF tlog'.ret = "err" THEN "failed" ELSE "done")
          /\ tlog'.error \in {"dir", "create"} => file' = file
          /\ UNCHANGED <<history, iter, op>>
          /\ op.name = "upsert" =>
                \E id \in DOMAIN history' : history'[id] = Unwrap(op.entry)]_vars

\* the process ended with the error of a write that failed, after a launch
\* whose record the store holds
C27_Witness ==
    /\ pc = "failed"
    /\ tlog.call = "store"
    /\ tlog.error = "write"
    /\ tlog.ret = "err"
    /\ op.name = "upsert"
    /\ \E id \in DOMAIN history : history[id] = Unwrap(op.entry)

------------------------------------------------------------------------------
(* Claims about the identifiers, checked under SpecLoaded *)

\* the identifiers that entered the store in the step
NewIds == DOMAIN history' \ DOMAIN history

\* C28: identifiers are unique for the lifetime of the process and strictly
\* increasing in the order they are assigned: the identifiers load and insert
\* produce are exactly the next values of the counter, which never goes back,
\* so each differs from every identifier produced before it, whether or not
\* delete freed that one, and insert finds its fresh identifier absent from
\* the store.
C28_IdsAreFreshAndIncreasing ==
    [][/\ GLOBAL_ID' >= GLOBAL_ID
       /\ NewIds = GLOBAL_ID..(GLOBAL_ID' - 1)
       /\ \A id \in DOMAIN history' : id < GLOBAL_ID'
       /\ (op'.name = "insert" /\ op' # op) =>
             /\ op'.retId = Some(GLOBAL_ID)
             /\ GLOBAL_ID \notin DOMAIN history
             /\ GLOBAL_ID' = GLOBAL_ID + 1]_vars

\* a record was loaded under identifier 0 and deleted, and the insert that
\* followed got identifier 1
C28_Witness ==
    /\ tlog.call = "load"
    /\ tlog.fileWas = "parsable"
    /\ op.name = "insert"
    /\ op.retId = Some(1)
    /\ GLOBAL_ID = 2
    /\ DOMAIN history = {1}

------------------------------------------------------------------------------
(* Claims about insert and update, checked under SpecHistory *)

\* the step is a call of insert, of update
InsertStep == op'.name = "insert" /\ op' # op
UpdateStep == op'.name = "update" /\ (op' # op \/ history' # history)

\* every entry of the store before the step is in it, unchanged, after it
ExistingEntriesKept == \A i \in DOMAIN history : i \in DOMAIN history' /\ history'[i] = history[i]

\* C29: insert(r) adds exactly one entry, r, under a fresh identifier and
\* returns that identifier, also when the store already holds a record equal
\* to r; the store grows by one and every existing entry is unchanged.
C29_InsertAlwaysAdds ==
    [][InsertStep =>
          LET r == Unwrap(op'.entry)
              id == Unwrap(op'.retId)
          IN /\ id \notin DOMAIN history
             /\ DOMAIN history' = DOMAIN history \cup {id}
             /\ history'[id] = r
             /\ Cardinality(DOMAIN history') = Cardinality(DOMAIN history) + 1
             /\ ExistingEntriesKept]_vars

\* insert was called with a record the store already held, and the store
\* now holds it twice
C29_Witness ==
    /\ op.name = "insert"
    /\ Cardinality(DOMAIN history) = 2
    /\ \A i \in DOMAIN history : history[i] = Unwrap(op.entry)

\* C30: update(id, r): if id is in the store, the entry for id becomes r, the
\* record it held is returned and every other entry is unchanged; if id is
\* not in the store, none is returned and the store is unchanged: no entry is
\* created.
C30_UpdateContract ==
    [][UpdateStep =>
          LET r == Unwrap(op'.entry)
              id == Unwrap(op'.id)
          IN IF id \in DOMAIN history
             THEN /\ DOMAIN history' = DOMAIN history
                  /\ history'[id] = r
                  /\ op'.retEntry = Some(history[id])
                  /\ \A i \in DOMAIN history \ {id} : history'[i] = history[i]
             ELSE /\ op'.retEntry = None
                  /\ history' = history]_vars

\* update was called with an identifier that delete had removed while the
\* store held another record: nothing was returned
C30_Witness ==
    /\ op.name = "update"
    /\ op.retEntry = None
    /\ op.id = Some(0)
    /\ DOMAIN history = {1}
    /\ history[1] # Unwrap(op.entry)

\* the step is a call of delete
DeleteCallStep == op'.name = "delete" /\ (op' # op \/ history' # history)

\* C31: delete(id): if id is in the store, exactly that entry is removed, its
\* record is returned and every other entry is unchanged; if id is not in the
\* store, none is returned and the store is unchanged; a second delete of the
\* same id returns none.
C31_DeleteContract ==
    [][DeleteCallStep =>
          LET id == Unwrap(op'.id)
          IN /\ IF id \in DOMAIN history
                THEN /\ DOMAIN history' = DOMAIN history \ {id}
                     /\ op'.retEntry = Some(history[id])
                     /\ \A i \in DOMAIN history' : history'[i] = history[i]
                ELSE /\ op'.retEntry = None
                     /\ history' = history
             /\ (op.name = "delete" /\ op.id = op'.id) => op'.retEntry = None]_vars

\* delete was called for identifier 0, which an earlier delete had removed,
\* while the store held another record: nothing was returned
C31_Witness ==
    /\ op.name = "delete"
    /\ op.id = Some(0)
    /\ op.retEntry = None
    /\ GLOBAL_ID = 2
    /\ DOMAIN history = {1}

------------------------------------------------------------------------------
(* Claims about load, checked under SpecTracker *)

\* the step is a call of load that returned a Tracker
LoadReturned == pc = "start" /\ tlog'.call = "load" /\ tlog'.ret = "ok"

\* how many times the record e occurs in the sequence s, in the store h
TimesInFile(s, e) == Cardinality({k \in DOMAIN s : s[k] = e})
TimesInStore(h, e) == Cardinality({id \in DOMAIN h : h[id] = e})

\* C32: load on an absent file returns an empty store and changes nothing on
\* disk; load on a well-formed file returns a store with exactly one entry
\* per record of the file, each under a distinct fresh identifier, and leaves
\* the file in place.
C32_LoadOfAbsentAndWellFormedFiles ==
    [][/\ (pc = "start" /\ tlog'.call = "load" /\ file = None) =>
             /\ tlog'.ret = "ok"
             /\ history' = <<>>
             /\ UNCHANGED fsVars
       /\ (LoadReturned /\ tlog'.fileWas = "parsable") =>
             LET entries == FileEntries(Unwrap(file))
             IN /\ Cardinality(DOMAIN history') = Len(entries)
                /\ \A e \in Range(entries) \cup Range(history') :
                      TimesInStore(history', e) = TimesInFile(entries, e)
                /\ \A id \in DOMAIN history' : id >= GLOBAL_ID /\ id < GLOBAL_ID'
                /\ UNCHANGED fsVars]_vars

\* load returned the two records of a well-formed file under two identifiers
C32_Witness ==
    /\ pc = "loaded"
    /\ tlog.call = "load"
    /\ tlog.fileWas = "parsable"
    /\ file # None
    /\ Len(FileEntries(Unwrap(file))) = 2
    /\ DOMAIN history = {0, 1}
    /\ history[0] # history[1]

------------------------------------------------------------------------------
(* Claims about the scores and the order of the rows, checked under SpecView *)

\* the step is a call of TableData::apply_filter
ApplyFilterStep == \E pattern \in Queries : ViewApplyFilter(pattern)

\* the score of the row of a record, in a sequence of rows
ScoreOfId(rs, id) == rs[CHOOSE k \in DOMAIN rs : rs[k].id = id].search_score

\* C33: apply_filter(q) returns true if and only if the score of at least one
\* row, a change between shown and hidden included, differs from its score
\* before the call; when it returns false the order of the rows and the set
\* of visible rows are what they were.
C33_ApplyFilterReportsChanges ==
    [][ApplyFilterStep =>
          /\ op'.changes <=>
                \E k \in DOMAIN rows : ScoreOfId(rows', rows[k].id) # rows[k].search_score
          /\ ~op'.changes =>
                /\ Ids(rows') = Ids(rows)
                /\ Ids(ViewAfter) = Ids(ViewBefore)]_vars

\* apply_filter returned false for a query that hides a row and shows
\* another: the call repeated the query of the call before
C33_Witness ==
    /\ op.name = "apply_filter"
    /\ ~op.changes
    /\ ~TrimIsEmpty(op.pattern)
    /\ \E k \in DOMAIN rows : rows[k].search_score = None
    /\ \E k \in DOMAIN rows : rows[k].search_score # None /\ ScoreOrZero(rows[k]) > 0

\* C34: after apply_filter, rows without a score come after every row that
\* has one in the internal order of the rows, and the visible rows are in
\* non-increasing order of score.
C34_BestMatchesFirstHiddenLast ==
    op.name = "apply_filter" =>
        /\ \A i, j \in DOMAIN rows :
              (i < j /\ rows[i].search_score = None) => rows[j].search_score = None
        /\ \A i, j \in DOMAIN AsRowsFull(rows) :
              i < j => ScoreOrZero(AsRowsFull(rows)[i]) >= ScoreOrZero(AsRowsFull(rows)[j])

\* apply_filter left a row hidden and two rows visible, the better match
\* above the other
C34_Witness ==
    /\ op.name = "apply_filter"
    /\ ~TrimIsEmpty(op.pattern)
    /\ Len(rows) = 3
    /\ VisibleRows = 2
    /\ ScoreOrZero(rows[1]) > ScoreOrZero(rows[2])
    /\ rows[3].search_score = None

------------------------------------------------------------------------------
(* Claims about the ordering of records, checked under SpecOrder *)

\* C35: the ordering of records is consistent with their equality and is a
\* total order: compare(a, b) is Equal if and only if a equals b under the
\* triple equality, and the ordering is antisymmetric and transitive for all
\* records, unequal records with the same last_opened included.
C35_OrderingIsTotalAndMatchesEquality ==
    op.name = "cmp" =>
        /\ (op.ab = "Equal") <=> EntryEq(op.a, op.b)
        /\ (op.ab = "Less") <=> (op.ba = "Greater")
        /\ (op.ab = "Less" /\ op.bc = "Less") => op.ac = "Less"
        /\ (op.ab = "Equal" /\ op.bc = "Equal") => op.ac = "Equal"

\* the identifiers held by the view's rows, visible or filtered out
RowIds(rs) == {rs[k].id : k \in DOMAIN rs}

\* the delete event took the branch that rebuilds the view: the store had the
\* record and the view had no row of it
ResyncTaken ==
    /\ DeleteSelectedEntry
    /\ GetSelectedRow(rows, selected) # None
    /\ LET entry_id == Unwrap(GetSelectedRow(rows, selected)).id
       IN /\ HistoryDeleteRet(history, entry_id) # None
          /\ ~UIDeleteRet(rows, entry_id)

\* C36: while the selector loop runs, the view holds one row for each record
\* of the store and no other row (rows that the filter hides included): the
\* identifiers of the rows are the identifiers of the store. So the delete
\* event never takes the branch that rebuilds the view, and an identifier the
\* loop returns is one that start finds in the store.
C36_ViewAndStoreHoldTheSameIds ==
    [][/\ pc' = "ui" =>
             /\ RowIds(rows') = DOMAIN history'
             /\ Len(rows') = Cardinality(DOMAIN history')
       /\ ~ResyncTaken
       /\ (pc = "ui" /\ pc' = "ui_done" /\ result' # None) =>
             /\ Unwrap(result') \in DOMAIN history'
             /\ StartResult' = result']_vars

\* the loop runs after a delete, with a filter that hides one of the rows left
C36_Witness ==
    /\ pc = "ui"
    /\ op.name = "delete"
    /\ op.retEntry # None
    /\ Len(rows) >= 2
    /\ VisibleRows < Len(rows)
    /\ RowIds(rows) = DOMAIN history

------------------------------------------------------------------------------
(* Claims about the history file across runs, checked under SpecRoundTrip *)

\* how many entries of the store h are the record e, in every field
Copies(h, e) == Cardinality({id \in DOMAIN h : h[id] = e})

\* C37: store followed by load of the same path is a round trip. When the
\* store held at most MAX_HISTORY_ENTRIES records, the loaded store holds the
\* same collection of records, equal in every field (last_opened included),
\* under the identifiers the load assigned; when it held more, every loaded
\* record is one of the stored records, no more often than it was stored.
C37_StoreThenLoadRoundTrip ==
    [][NextRunLoad =>
          /\ Cardinality(DOMAIN history) <= MAX_HISTORY_ENTRIES =>
                \A e \in Range(history) \cup Range(history') :
                   Copies(history', e) = Copies(history, e)
          /\ \A e \in Range(history') : Copies(history', e) <= Copies(history, e)
          /\ DOMAIN history' = 0..(Cardinality(DOMAIN history') - 1)
          /\ GLOBAL_ID' = Cardinality(DOMAIN history')]_vars

\* the next run loaded two records: one of a dev container, one opened at a
\* fraction of a second
C37_Witness ==
    /\ pc = "loaded_again"
    /\ Cardinality(DOMAIN history) = 2
    /\ \E id \in DOMAIN history : history[id].config_path # None
    /\ \E id \in DOMAIN history : history[id].last_opened % TicksPerSecond # 0
    /\ FileEntries(Unwrap(file)) = IntoEntries(history, [i \in 1..2 |-> i - 1])

------------------------------------------------------------------------------
(* Claims about the Open command, checked under SpecTracker *)

\* the Open command failed: the process ended after load had returned a
\* Tracker and before the command was done
OpenFailedStep == pc = "loaded" /\ pc' = "failed"

\* C38: in the Open command the record is upserted only after the launch
\* succeeded. When the workspace, the launch or canonicalize fails, the
\* process ends with the error: the store is as load returned it (no upsert
\* was made), store is not called and the history file and the backups on
\* disk are as they were; nothing runs after the failure. An upsert is made
\* only by a command that goes on to store.
C38_OpenFailureLeavesHistoryAlone ==
    [][/\ OpenFailedStep =>
             /\ UNCHANGED <<history, iter, GLOBAL_ID, op>>
             /\ UNCHANGED fsVars
             /\ tlog' = tlog
             /\ tlog.call = "load"
       /\ (op'.name = "upsert" /\ pc = "loaded") => pc' = "command_done"
       /\ pc # "failed"]_vars

\* the Open command failed over a history file of two records: the store
\* holds them as loaded and the file is there
C38_Witness ==
    /\ pc = "failed"
    /\ tlog.call = "load"
    /\ tlog.ret = "ok"
    /\ op = NoOp
    /\ file # None
    /\ Len(FileEntries(Unwrap(file))) = 2
    /\ Cardinality(DOMAIN history) = 2

------------------------------------------------------------------------------
(* Claims about the start of the selector, checked under SpecRecent *)

\* the selector started: the terminal was set up, the view was built and
\* drawn for the first time
SelectorStarted == pc = "loaded" /\ pc' = "ui"

\* C39: when the selector starts on a non-empty history the cursor is on
\* index 0, the record at index 0 is a record with the greatest last_opened
\* of the store (the workspace opened most recently is preselected), and
\* every record of the store is visible.
C39_NewestRecordPreselected ==
    [][(SelectorStarted /\ DOMAIN history # {}) =>
          /\ selected' = Some(0)
          /\ \A id \in DOMAIN history :
                rows'[1].entry.last_opened >= history[id].last_opened
          /\ Len(AsRowsFull(rows')) = Cardinality(DOMAIN history)
          /\ RowIds(AsRowsFull(rows')) = DOMAIN history]_vars

------------------------------------------------------------------------------
(* Claims about files with a record that is not an Entry, checked under
   SpecTracker *)

\* the file is a JSON array and one of its objects fails to deserialize
HasBadRecord(content) ==
    /\ content.parsable
    /\ \E i \in DOMAIN content.entries : DeserializeEntry(content.entries[i]) = None

\* also one of its objects is a well-formed record
HasGoodRecord(content) ==
    \E i \in DOMAIN content.entries : DeserializeEntry(content.entries[i]) # None

\* a step of load that read a file with a record that fails to deserialize
LoadOfBadRecord ==
    /\ pc = "start"
    /\ pc' # "start"
    /\ file # None
    /\ HasBadRecord(Unwrap(file))
    /\ tlog'.error # "open"

\* C40 as stated: load is all-or-nothing. If any single record of the file
\* fails to deserialize, no record of the file is loaded (the store is
\* empty) and the whole file is moved aside.
C40_BadRecordEmptiesAndMoves ==
    [][LoadOfBadRecord =>
          /\ history' = <<>>
          /\ file' = None
          /\ tlog'.movedTo # None
          /\ \A name \in tlog'.movedTo : name \in bakBroken']_vars

\* C40, amended: if any single record of the file fails to deserialize, no
\* record of the file is loaded, whatever the other records are. Either the
\* whole file is moved aside and load returns an empty store, or the move
\* fails, load returns that error, and the file stays whole where it was; the
\* store never holds a part of the file's records.
C40_BadRecordLoadsNothing ==
    [][LoadOfBadRecord =>
          /\ history' = <<>>
          /\ GLOBAL_ID' = GLOBAL_ID
          /\ \/ /\ tlog'.ret = "ok"
                /\ pc' = "loaded"
                /\ file' = None
                /\ tlog'.movedTo # None
                /\ \A name \in tlog'.movedTo : name \in bakBroken'
             \/ /\ tlog'.ret = "err"
                /\ tlog'.error = "rename"
                /\ pc' = "failed"
                /\ UNCHANGED fsVars]_vars

\* load returned an empty store over a file of two records, one well-formed
\* and one that fails to deserialize, and the file was moved aside to the
\* first free backup name (the runs that start with the one backup
\* MaxBak + 1 are those over a file with a bad record; now - 1 is the number
\* of the file's records)
C40_Witness ==
    /\ pc = "loaded"
    /\ tlog.call = "load"
    /\ tlog.fileWas = "broken"
    /\ tlog.movedTo = Some(0)
    /\ bakOld = {MaxBak + 1}
    /\ now = 3
    /\ history = <<>>
    /\ file = None
    /\ bakBroken = {0}

====
